---- MODULE Spec2Model ----
(***************************************************************************)
(* security-manager: the Cynara wrapper (src/src/common/cynara.cpp) and    *)
(* the privilege database (privilege_db.cpp, src/unnamed/part_000).        *)
(*                                                                         *)
(* Three specifications share the module's variables:                      *)
(*   Spec / FairSpec  the asynchronous check client Cynara: caller         *)
(*                    threads in check(), the worker thread in run(), the  *)
(*                    destructor, and the Cynara service;                  *)
(*   SpecAdmin        CynaraAdmin: UpdateAppPolicy, UserInit, SetPolicies; *)
(*   SpecDb           PrivilegeDb: AddApplication, RemoveApplication.      *)
(***************************************************************************)
EXTENDS Integers, Sequences, FiniteSets, TLC

VARIABLES
    \* ---- class Cynara ----
    mutex,      \* Cynara::mutex: "free" or the thread holding it
    eventfd,    \* counter of the eventfd behind pollFds[0]
    terminate,  \* Cynara::terminate (std::atomic<bool>)
    pollFds1,   \* pollFds[1]: [fd, events], written by statusCallback
    wpc,        \* the worker thread's position in run()
    polled,     \* the copy of pollFds[1] the current poll() call waits on
    revents,    \* [r0, r1]: pollFds[0].revents, pollFds[1].revents after poll()
    cpc,        \* each caller thread's position in check()
    promise,    \* each caller's std::promise<bool>: [n, kind, v]
    ret,        \* each caller's local ret: what the cache lookup returned
    check_id,   \* each caller's local check_id
    nPuts,      \* threadNotifyPut calls of each caller's current check()
    result,     \* what each caller's check() call returned or threw
    nChecks,    \* check() calls started so far
    dpc,        \* the destructor's position in ~Cynara()
    \* ---- libcynara-client-async and the Cynara service ----
    libFd,      \* the library's socket descriptor, -1 when not connected
    reqs,       \* the library's request table: id -> [st, ptr, cause, response]
    lastCall,   \* per promise, the arguments of the last responseCallback on it
    nCalls,     \* per promise, the responseCallback invocations on it
    produced,   \* per caller, how the request it created was completed
    wErr,       \* the last LogError of the worker, if its log is kept: [kind, at]
    \* ---- class CynaraAdmin ----
    aIn,        \* the last CynaraAdmin call and its arguments
    aOut,       \* its outcome: "ok" or the CynaraException thrown
    aPolicies,  \* the vectors it passed to SetPolicies, in order
    adminCalls, \* the batches it handed to cynara_admin_set_policies, in order
    aStore,     \* the rules the policy store holds
    aErase,     \* the calls it made of cynara_admin_erase, in order
    aUsers,     \* listOfUsers, the vector ListUsers fills
    m_policyDescriptionsInitialized,
    TypeToDescription,  \* the cached names, by result code
    DescriptionToType,  \* the cached result codes, by name
    dLast,      \* the last lookup of a description and its outcome
    dPre,       \* the flag and the two maps before the last lookup
    dLoaded,    \* the list of the last load that filled the maps, <<>> if none
    \* ---- class PrivilegeDb ----
    appPkg,     \* the application table: the set of [app, pkg] rows
    dbBefore,   \* the application table before the last PrivilegeDb call
    dbLog,      \* the PrivilegeDb calls made: [op, app, pkg, flag, ok, err]
    appPriv,    \* the privilege table: the set of [app, priv] rows
    conn,       \* mSqlConnection: "closed" before the constructor, then "open"
    sLast,      \* the last call on the privilege table and its outcome
    sPre        \* the privilege table before the last call

clientVars == <<mutex, eventfd, terminate, pollFds1, wpc, polled, revents, cpc,
                promise, ret, check_id, nPuts, result, nChecks, dpc, libFd, reqs,
                lastCall, nCalls, produced, wErr>>
adminVars == <<aIn, aOut, aPolicies, adminCalls, aStore, aErase, aUsers>>
dbVars == <<appPkg, dbBefore, dbLog>>
storeVars == <<appPriv, conn, sLast, sPre>>
descrVars == <<m_policyDescriptionsInitialized, TypeToDescription,
               DescriptionToType, dLast, dPre, dLoaded>>
vars == <<clientVars, adminVars, dbVars, storeVars, descrVars>>
notClientVars == <<adminVars, dbVars, storeVars, descrVars>>

(***************************************************************************)
(* Bounds of the model.                                                    *)
(***************************************************************************)
\* check() calls started in one run, over all caller threads.
MaxChecks == 2

\* The threads calling check().
Callers == {1, 2}
\* One request can be outstanding per caller: each caller blocks on its own.
Ids == Callers

(***************************************************************************)
(* Result codes of the Cynara API (cynara-error.h), as cynara.cpp uses     *)
(* them.                                                                   *)
(***************************************************************************)
CYNARA_API_MAX_PENDING_REQUESTS == -2
CYNARA_API_CACHE_MISS == -1
CYNARA_API_ACCESS_ALLOWED == 2
CYNARA_API_ACCESS_DENIED == 1
CYNARA_API_SUCCESS == 0
CYNARA_API_OUT_OF_MEMORY == -3
CYNARA_API_INVALID_PARAM == -4
CYNARA_API_SERVICE_NOT_AVAILABLE == -5
CYNARA_API_METHOD_NOT_SUPPORTED == -6
CYNARA_API_OPERATION_NOT_ALLOWED == -7
CYNARA_API_OPERATION_FAILED == -8
CYNARA_API_BUCKET_NOT_FOUND == -9

\* A function's outcome: a returned boolean or a thrown CynaraException.
Ret(b) == [kind |-> "ret", v |-> b, e |-> "-"]
Throw(name) == [kind |-> "throw", v |-> FALSE, e |-> name]
NoResult == [kind |-> "none", v |-> FALSE, e |-> "-"]

\* static bool checkCynaraError(int result, const std::string &msg)
checkCynaraError(code) ==
    CASE code = CYNARA_API_SUCCESS -> Ret(TRUE)
      [] code = CYNARA_API_ACCESS_ALLOWED -> Ret(TRUE)
      [] code = CYNARA_API_ACCESS_DENIED -> Ret(FALSE)
      [] code = CYNARA_API_MAX_PENDING_REQUESTS -> Throw("MaxPendingRequests")
      [] code = CYNARA_API_OUT_OF_MEMORY -> Throw("OutOfMemory")
      [] code = CYNARA_API_INVALID_PARAM -> Throw("InvalidParam")
      [] code = CYNARA_API_SERVICE_NOT_AVAILABLE -> Throw("ServiceNotAvailable")
      [] code = CYNARA_API_METHOD_NOT_SUPPORTED -> Throw("MethodNotSupported")
      [] code = CYNARA_API_OPERATION_NOT_ALLOWED -> Throw("OperationNotAllowed")
      [] code = CYNARA_API_OPERATION_FAILED -> Throw("OperationFailed")
      [] code = CYNARA_API_BUCKET_NOT_FOUND -> Throw("BucketNotFound")
      [] OTHER -> Throw("UnknownError")

(***************************************************************************)
(* class Cynara: the asynchronous check client.                            *)
(***************************************************************************)

\* std::promise<bool> promise; n counts the set_value/set_exception calls made
\* on it (a second one throws std::future_error and leaves the state as it is).
\* The values of Cynara::mutex: free, or locked by one thread.
Free == <<"free", 0>>
ByCaller(c) == <<"caller", c>>
ByWorker == <<"worker", 0>>
ByDtor == <<"dtor", 0>>

NewPromise == [n |-> 0, kind |-> "none", v |-> FALSE, e |-> "-"]
set_value(p, b) ==
    IF p.n = 0 THEN [n |-> 1, kind |-> "ret", v |-> b, e |-> "-"]
    ELSE [p EXCEPT !.n = 2]
set_exception(p, name) ==
    IF p.n = 0 THEN [n |-> 1, kind |-> "throw", v |-> FALSE, e |-> name]
    ELSE [p EXCEPT !.n = 2]

\* The conversion of an int argument to the bool parameter of
\* std::promise<bool>::set_value: zero is false, anything else is true.
IntToBool(i) == i # 0

Causes == {"ANSWER", "CANCEL", "FINISH", "SERVICE_NOT_AVAILABLE"}

\* responseCallback with the FINISH case leaving the promise alone.
responseCallback_FinishIgnored(p, cause, response) ==
    CASE cause = "ANSWER" -> set_value(p, IntToBool(response))
      [] cause = "CANCEL" -> set_value(p, IntToBool(CYNARA_API_ACCESS_DENIED))
      [] cause = "SERVICE_NOT_AVAILABLE" -> set_exception(p, "ServiceNotAvailable")
      [] OTHER -> p

\* responseCallback with SERVICE_NOT_AVAILABLE answered as a denial.
responseCallback_UnavailableDenied(p, cause, response) ==
    CASE cause = "ANSWER" -> set_value(p, IntToBool(response))
      [] cause = "CANCEL" -> set_value(p, IntToBool(CYNARA_API_ACCESS_DENIED))
      [] cause = "FINISH" -> set_value(p, IntToBool(CYNARA_API_ACCESS_DENIED))
      [] cause = "SERVICE_NOT_AVAILABLE" -> set_value(p, FALSE)
      [] OTHER -> p

\* responseCallback with the break of the CANCEL case missing: control falls
\* through into the FINISH case and the promise is set a second time.
responseCallback_CancelFallsThrough(p, cause, response) ==
    CASE cause = "ANSWER" -> set_value(p, IntToBool(response))
      [] cause = "CANCEL" ->
            set_value(set_value(p, IntToBool(CYNARA_API_ACCESS_DENIED)),
                      IntToBool(CYNARA_API_ACCESS_DENIED))
      [] cause = "FINISH" -> set_value(p, IntToBool(CYNARA_API_ACCESS_DENIED))
      [] cause = "SERVICE_NOT_AVAILABLE" -> set_exception(p, "ServiceNotAvailable")
      [] OTHER -> p

\* void Cynara::responseCallback(checkId, cause, response, ptr): the promise
\* behind ptr after the call.
responseCallback(p, cause, response) ==
    CASE cause = "ANSWER" -> set_value(p, IntToBool(response))
      [] cause = "CANCEL" -> set_value(p, IntToBool(CYNARA_API_ACCESS_DENIED))
      [] cause = "FINISH" -> set_value(p, IntToBool(CYNARA_API_ACCESS_DENIED))
      [] cause = "SERVICE_NOT_AVAILABLE" -> set_exception(p, "ServiceNotAvailable")
      [] OTHER -> p

\* void Cynara::statusCallback(oldFd, newFd, status, ptr): *ptr after the call.
statusCallback(cynaraFd, newFd, status) ==
    IF newFd = "none"
    THEN [cynaraFd EXCEPT !.events = {}]
    ELSE [fd |-> newFd,
          events |-> CASE status = "FOR_READ" -> {"POLLIN"}
                       [] status = "FOR_RW" -> {"POLLIN", "POLLOUT"}
                       [] OTHER -> cynaraFd.events]

\* Cynara::Cynara(): pollFds[1] starts as the eventfd with no events asked.
InitPollFds1 == [fd |-> "eventfd", events |-> {}]

\* A slot of the request table: ptr is the context pointer given at creation
\* (the promise of a caller), owner the thread that created the request.
FreeReq == [st |-> "free", ptr |-> 0, owner |-> 0, cause |-> "-", response |-> 0]
NoOutcome == [cause |-> "-", response |-> 0]
NoCall == [id |-> 0, cause |-> "-", response |-> 0]
\* The log of the worker thread (LogError at lines 671 and 694): not kept, or
\* kept and still empty; at is the number of check() calls started when the
\* failure was logged.
NoLog == [kind |-> "off", at |-> 0]
NoErr == [kind |-> "none", at |-> 0]

\* What poll() reports for one pollfd entry: the asked events that are ready
\* (the socket is always writable, and readable when a response has arrived);
\* a descriptor that is no longer open reports POLLNVAL whatever was asked.
Ready(entry) ==
    IF entry.fd = "sock"
    THEN IF libFd = "sock"
         THEN entry.events \cap
              ({"POLLOUT"} \cup
               (IF \E i \in Ids : reqs[i].st = "ready" THEN {"POLLIN"} ELSE {}))
         ELSE {"POLLNVAL"}
    ELSE {}

InitCynara ==
    /\ mutex = Free
    /\ eventfd = 0
    /\ terminate = FALSE
    /\ pollFds1 = InitPollFds1
    /\ wpc = "enter"
    /\ polled = InitPollFds1
    /\ revents = [r0 |-> FALSE, r1 |-> {}]
    /\ cpc = [c \in Callers |-> "idle"]
    /\ promise = [c \in Callers |-> NewPromise]
    /\ ret = [c \in Callers |-> 0]
    /\ check_id = [c \in Callers |-> 0]
    /\ nPuts = [c \in Callers |-> 0]
    /\ result = [c \in Callers |-> [out |-> NoResult, via |-> "-"]]
    /\ nChecks = 0
    /\ dpc = "alive"
    /\ libFd = "none"
    /\ reqs = [i \in Ids |-> FreeReq]
    /\ lastCall = [c \in Callers |-> NoCall]
    /\ nCalls = [c \in Callers |-> 0]
    /\ produced = [c \in Callers |-> NoOutcome]

\* The client after construction, the worker's log not kept.
InitClient == InitCynara /\ wErr = NoLog

\* LogError of the worker thread: the failure becomes the last entry of the
\* log, if the log is kept.
LogError(kind) ==
    IF wErr = NoLog THEN wErr ELSE [kind |-> kind, at |-> nChecks]

\* ---- bool Cynara::check(label, privilege, user, session) ----

\* The codes cynara_async_check_cache can return.
CacheRets == {CYNARA_API_CACHE_MISS, CYNARA_API_ACCESS_ALLOWED,
              CYNARA_API_ACCESS_DENIED, CYNARA_API_SUCCESS,
              CYNARA_API_INVALID_PARAM}
\* The codes cynara_async_create_request can return.
CreateRets == {CYNARA_API_SUCCESS, CYNARA_API_MAX_PENDING_REQUESTS}

\* The test of line 715 taking a cached denial for a miss as well.
IsCacheMiss_DeniedToo(r) ==
    r \in {CYNARA_API_CACHE_MISS, CYNARA_API_ACCESS_DENIED}

\* check(), line 715: the test of the lookup result against the sentinel.
IsCacheMiss(r) == r = CYNARA_API_CACHE_MISS

\* The cache lookup made without waiting for the mutex.
CheckBegin_NoLock(c) ==
    /\ cpc[c] \in {"idle", "done"}
    /\ nChecks < MaxChecks
    /\ dpc \notin {"finish", "destroyed"}
    /\ \E r \in CacheRets :
        /\ ret' = [ret EXCEPT ![c] = r]
        /\ IF ~IsCacheMiss(r)
           THEN /\ result' = [result EXCEPT ![c] =
                                 [out |-> checkCynaraError(r), via |-> "cache"]]
                /\ cpc' = [cpc EXCEPT ![c] = "done"]
                /\ UNCHANGED mutex
           ELSE /\ result' = [result EXCEPT ![c] = [out |-> NoResult, via |-> "-"]]
                /\ cpc' = [cpc EXCEPT ![c] = "create"]
                /\ mutex' = ByCaller(c)
    /\ nChecks' = nChecks + 1
    /\ promise' = [promise EXCEPT ![c] = NewPromise]
    /\ check_id' = [check_id EXCEPT ![c] = 0]
    /\ nPuts' = [nPuts EXCEPT ![c] = 0]
    /\ lastCall' = [lastCall EXCEPT ![c] = NoCall]
    /\ nCalls' = [nCalls EXCEPT ![c] = 0]
    /\ produced' = [produced EXCEPT ![c] = NoOutcome]
    /\ UNCHANGED <<eventfd, terminate, pollFds1, wpc, polled, revents, dpc,
                   libFd, reqs>>
    /\ UNCHANGED <<wErr, notClientVars>>

\* check(), lines 705-716: a fresh promise, the lock, the cache lookup; any
\* code but CACHE_MISS returns (or throws) from checkCynaraError at once, the
\* lock_guard releasing the mutex.
CheckBegin(c) ==
    /\ cpc[c] \in {"idle", "done"}
    /\ nChecks < MaxChecks
    /\ dpc \notin {"finish", "destroyed"}
    /\ mutex = Free
    /\ \E r \in CacheRets :
        /\ ret' = [ret EXCEPT ![c] = r]
        /\ IF ~IsCacheMiss(r)
           THEN /\ result' = [result EXCEPT ![c] =
                                 [out |-> checkCynaraError(r), via |-> "cache"]]
                /\ cpc' = [cpc EXCEPT ![c] = "done"]
                /\ UNCHANGED mutex
           ELSE /\ result' = [result EXCEPT ![c] = [out |-> NoResult, via |-> "-"]]
                /\ cpc' = [cpc EXCEPT ![c] = "create"]
                /\ mutex' = ByCaller(c)
    /\ nChecks' = nChecks + 1
    /\ promise' = [promise EXCEPT ![c] = NewPromise]
    /\ check_id' = [check_id EXCEPT ![c] = 0]
    /\ nPuts' = [nPuts EXCEPT ![c] = 0]
    /\ lastCall' = [lastCall EXCEPT ![c] = NoCall]
    /\ nCalls' = [nCalls EXCEPT ![c] = 0]
    /\ produced' = [produced EXCEPT ![c] = NoOutcome]
    /\ UNCHANGED <<eventfd, terminate, pollFds1, wpc, polled, revents, dpc,
                   libFd, reqs>>
    /\ UNCHANGED <<wErr, notClientVars>>

\* check(), lines 720-725: cynara_async_create_request under the mutex. The
\* library queues the request with &promise as its context, connects if it has
\* no socket, and asks through statusCallback to be polled for read and write.
CheckCreate(c) ==
    /\ cpc[c] = "create"
    /\ \E r \in CreateRets :
        IF r = CYNARA_API_SUCCESS
        THEN /\ \E i \in Ids :
                  /\ reqs[i].st = "free"
                  /\ \A j \in Ids : reqs[j].st = "free" => i <= j
                  /\ reqs' = [reqs EXCEPT ![i] =
                                [st |-> "queued", ptr |-> c, owner |-> c,
                                 cause |-> "-", response |-> 0]]
                  /\ check_id' = [check_id EXCEPT ![c] = i]
             /\ libFd' = "sock"
             /\ pollFds1' = statusCallback(pollFds1, "sock", "FOR_RW")
             /\ cpc' = [cpc EXCEPT ![c] = "notify"]
             /\ UNCHANGED <<mutex, result>>
        ELSE /\ result' = [result EXCEPT ![c] =
                              [out |-> checkCynaraError(r), via |-> "create"]]
             /\ cpc' = [cpc EXCEPT ![c] = "done"]
             /\ mutex' = Free
             /\ UNCHANGED <<reqs, check_id, libFd, pollFds1>>
    /\ UNCHANGED <<eventfd, terminate, wpc, polled, revents, promise, nChecks,
                   dpc, lastCall, nCalls>>
    /\ UNCHANGED <<ret, nPuts, produced>>
    /\ UNCHANGED <<wErr, notClientVars>>

\* The registration ending without the wake signal being written.
CheckNotify_NoWrite(c) ==
    /\ cpc[c] = "notify"
    /\ nPuts' = [nPuts EXCEPT ![c] = @ + 1]
    /\ cpc' = [cpc EXCEPT ![c] = "unlock"]
    /\ UNCHANGED <<mutex, eventfd, terminate, pollFds1, wpc, polled, revents, promise,
                   check_id, result, nChecks, dpc, libFd, reqs, lastCall, nCalls>>
    /\ UNCHANGED <<ret, produced>>
    /\ UNCHANGED <<wErr, notClientVars>>

\* check(), line 727: threadNotifyPut(), eventfd_write(pollFds[0].fd, 1).
CheckNotify(c) ==
    /\ cpc[c] = "notify"
    /\ eventfd' = eventfd + 1
    /\ nPuts' = [nPuts EXCEPT ![c] = @ + 1]
    /\ cpc' = [cpc EXCEPT ![c] = "unlock"]
    /\ UNCHANGED <<mutex, terminate, pollFds1, wpc, polled, revents, promise,
                   check_id, result, nChecks, dpc, libFd, reqs, lastCall, nCalls>>
    /\ UNCHANGED <<ret, produced>>
    /\ UNCHANGED <<wErr, notClientVars>>

\* The critical section ending without the mutex being released.
CheckUnlock_KeepsMutex(c) ==
    /\ cpc[c] = "unlock"
    /\ cpc' = [cpc EXCEPT ![c] = "wait"]
    /\ UNCHANGED <<mutex, eventfd, terminate, pollFds1, wpc, polled, revents,
                   promise, check_id, result, nChecks, dpc, libFd, reqs, lastCall,
                   nCalls>>
    /\ UNCHANGED <<ret, nPuts, produced>>
    /\ UNCHANGED <<wErr, notClientVars>>

\* check(), line 729: the critical section ends.
CheckUnlock(c) ==
    /\ cpc[c] = "unlock"
    /\ mutex' = Free
    /\ cpc' = [cpc EXCEPT ![c] = "wait"]
    /\ UNCHANGED <<eventfd, terminate, pollFds1, wpc, polled, revents, promise,
                   check_id, result, nChecks, dpc, libFd, reqs, lastCall, nCalls>>
    /\ UNCHANGED <<ret, nPuts, produced>>
    /\ UNCHANGED <<wErr, notClientVars>>

\* check(), line 731: future.get() blocks until the promise is set, then
\* returns its value or rethrows its exception.
CheckGet(c) ==
    /\ cpc[c] = "wait"
    /\ promise[c].n > 0
    /\ result' = [result EXCEPT ![c] =
                     [out |-> [kind |-> promise[c].kind, v |-> promise[c].v,
                               e |-> promise[c].e],
                      via |-> "async"]]
    /\ cpc' = [cpc EXCEPT ![c] = "done"]
    /\ UNCHANGED <<mutex, eventfd, terminate, pollFds1, wpc, polled, revents,
                   promise, check_id, nChecks, dpc, libFd, reqs, lastCall, nCalls>>
    /\ UNCHANGED <<ret, nPuts, produced>>
    /\ UNCHANGED <<wErr, notClientVars>>

\* ---- void Cynara::run(): the worker thread ----

\* run(), line 668: poll(pollFds, 2, -1) is entered; the kernel waits on the
\* descriptors and event masks the array holds at this moment.
WorkerPollEnter ==
    /\ wpc = "enter"
    /\ polled' = pollFds1
    /\ wpc' = "poll"
    /\ UNCHANGED <<mutex, eventfd, terminate, pollFds1, revents, cpc, promise,
                   check_id, result, nChecks, dpc, libFd, reqs, lastCall, nCalls>>
    /\ UNCHANGED <<ret, nPuts, produced>>
    /\ UNCHANGED <<wErr, notClientVars>>

\* run(), lines 668 and 676: poll returns once the eventfd is readable or the
\* polled Cynara descriptor is ready, and fills in revents.
WorkerPollReturn ==
    /\ wpc = "poll"
    /\ eventfd > 0 \/ Ready(polled) # {}
    /\ revents' = [r0 |-> eventfd > 0, r1 |-> Ready(polled)]
    /\ wpc' = IF eventfd > 0 THEN "get" ELSE "chk1"
    /\ UNCHANGED <<mutex, eventfd, terminate, pollFds1, polled, cpc, promise,
                   check_id, result, nChecks, dpc, libFd, reqs, lastCall, nCalls>>
    /\ UNCHANGED <<ret, nPuts, produced>>
    /\ UNCHANGED <<wErr, notClientVars>>

\* run(), lines 669-673: poll returns -1 (EINTR or another error); the loop
\* continues with a new poll.
WorkerPollFail ==
    /\ wpc = "poll"
    /\ wpc' = "enter"
    /\ wErr' = LogError("poll")
    /\ UNCHANGED <<mutex, eventfd, terminate, pollFds1, polled, revents, cpc,
                   promise, check_id, result, nChecks, dpc, libFd, reqs, lastCall,
                   nCalls>>
    /\ UNCHANGED <<ret, nPuts, produced>>
    /\ UNCHANGED notClientVars

\* run(), line 677: threadNotifyGet(), eventfd_read resets the counter.
WorkerNotifyGet ==
    /\ wpc = "get"
    /\ eventfd' = 0
    /\ wpc' = "term"
    /\ UNCHANGED <<mutex, terminate, pollFds1, polled, revents, cpc, promise,
                   check_id, result, nChecks, dpc, libFd, reqs, lastCall, nCalls>>
    /\ UNCHANGED <<ret, nPuts, produced>>
    /\ UNCHANGED <<wErr, notClientVars>>

\* run(), lines 678-681: terminate.load(), read after the eventfd was drained.
WorkerCheckTerminate ==
    /\ wpc = "term"
    /\ wpc' = IF terminate THEN "exited" ELSE "chk1"
    /\ UNCHANGED <<mutex, eventfd, terminate, pollFds1, polled, revents, cpc,
                   promise, check_id, result, nChecks, dpc, libFd, reqs, lastCall,
                   nCalls>>
    /\ UNCHANGED <<ret, nPuts, produced>>
    /\ UNCHANGED <<wErr, notClientVars>>

\* run(), line 686: pollFds[1].revents is empty, nothing to process.
WorkerSkip ==
    /\ wpc = "chk1"
    /\ revents.r1 = {}
    /\ wpc' = "enter"
    /\ UNCHANGED <<mutex, eventfd, terminate, pollFds1, polled, revents, cpc,
                   promise, check_id, result, nChecks, dpc, libFd, reqs, lastCall,
                   nCalls>>
    /\ UNCHANGED <<ret, nPuts, produced>>
    /\ UNCHANGED <<wErr, notClientVars>>

\* The worker entering the processing step without taking the mutex.
WorkerLock_NoMutex ==
    /\ wpc = "chk1"
    /\ revents.r1 # {}
    /\ wpc' = "process"
    /\ UNCHANGED <<mutex, eventfd, terminate, pollFds1, polled, revents, cpc,
                   promise, check_id, result, nChecks, dpc, libFd, reqs, lastCall,
                   nCalls>>
    /\ UNCHANGED <<ret, nPuts, produced>>
    /\ UNCHANGED <<wErr, notClientVars>>

\* run(), lines 686-688: pollFds[1].revents is set, the worker takes the mutex.
WorkerLock ==
    /\ wpc = "chk1"
    /\ revents.r1 # {}
    /\ mutex = Free
    /\ mutex' = ByWorker
    /\ wpc' = "process"
    /\ UNCHANGED <<eventfd, terminate, pollFds1, polled, revents, cpc, promise,
                   check_id, result, nChecks, dpc, libFd, reqs, lastCall, nCalls>>
    /\ UNCHANGED <<ret, nPuts, produced>>
    /\ UNCHANGED <<wErr, notClientVars>>

\* The request whose context pointer is caller c's promise and that is in one
\* of the states sts, or 0.
ReqOf(c, sts) ==
    IF \E i \in Ids : reqs[i].ptr = c /\ reqs[i].st \in sts
    THEN CHOOSE i \in Ids : reqs[i].ptr = c /\ reqs[i].st \in sts
    ELSE 0

\* The library invoking the response callback of every request in done: the
\* promises, the record of the calls and the request table afterwards.
Deliver(done, causeOf, responseOf) ==
    /\ promise' = [c \in Callers |->
                     IF ReqOf(c, done) # 0
                     THEN responseCallback(promise[c], causeOf[ReqOf(c, done)],
                                           responseOf[ReqOf(c, done)])
                     ELSE promise[c]]
    /\ lastCall' = [c \in Callers |->
                      IF ReqOf(c, done) # 0
                      THEN [id |-> ReqOf(c, done),
                            cause |-> causeOf[ReqOf(c, done)],
                            response |-> responseOf[ReqOf(c, done)]]
                      ELSE lastCall[c]]
    /\ nCalls' = [c \in Callers |->
                    IF ReqOf(c, done) # 0 THEN nCalls[c] + 1 ELSE nCalls[c]]

\* The codes cynara_async_process can return.
ProcessRets == {CYNARA_API_SUCCESS, CYNARA_API_OPERATION_FAILED}

\* The library has found the service gone: a request is completing with
\* cause SERVICE_NOT_AVAILABLE.
ServiceGone ==
    \E i \in Ids : reqs[i].st = "ready" /\ reqs[i].cause = "SERVICE_NOT_AVAILABLE"

\* The library dropping its connection inside cynara_async_process: every
\* pending request is completed with SERVICE_NOT_AVAILABLE, the socket is
\* closed, and statusCallback is called with newFd = -1.
onDisconnected ==
    /\ Deliver({"queued", "sent", "ready"},
               [i \in Ids |-> IF reqs[i].st = "ready" THEN reqs[i].cause
                              ELSE "SERVICE_NOT_AVAILABLE"],
               [i \in Ids |-> IF reqs[i].st = "ready" THEN reqs[i].response ELSE 0])
    /\ produced' = [c \in Callers |->
                      IF \E i \in Ids : /\ reqs[i].st \in {"queued", "sent"}
                                        /\ reqs[i].owner = c
                      THEN [cause |-> "SERVICE_NOT_AVAILABLE", response |-> 0]
                      ELSE produced[c]]
    /\ reqs' = [i \in Ids |-> FreeReq]
    /\ libFd' = "none"
    /\ pollFds1' = statusCallback(pollFds1, "none", "-")

\* The processing step with no handler around it: the exception thrown for an
\* error code ends run().
Process_ErrorLeavesLoop(r) ==
    /\ wpc = "process"
    /\ IF checkCynaraError(r).kind = "ret" /\ libFd = "sock"
       THEN \E gone \in {FALSE} \cup {x \in {TRUE} : ServiceGone} :
              IF gone
              THEN onDisconnected
              ELSE /\ Deliver({"ready"}, [i \in Ids |-> reqs[i].cause],
                              [i \in Ids |-> reqs[i].response])
                   /\ reqs' = [i \in Ids |->
                                 CASE reqs[i].st = "ready" -> FreeReq
                                   [] reqs[i].st = "queued" ->
                                        [reqs[i] EXCEPT !.st = "sent"]
                                   [] OTHER -> reqs[i]]
                   /\ pollFds1' = statusCallback(pollFds1, libFd, "FOR_READ")
                   /\ UNCHANGED <<libFd, produced>>
       ELSE UNCHANGED <<promise, lastCall, nCalls, reqs, pollFds1, libFd, produced>>
    /\ wErr' = IF checkCynaraError(r).kind = "ret" THEN wErr
               ELSE LogError("process")
    /\ mutex' = Free
    /\ wpc' = IF checkCynaraError(r).kind = "ret" THEN "enter" ELSE "exited"
    /\ UNCHANGED <<eventfd, terminate, polled, revents, cpc, check_id, result,
                   nChecks, dpc>>
    /\ UNCHANGED <<ret, nPuts>>
    /\ UNCHANGED notClientVars

\* run(), lines 688-695: cynara_async_process under the mutex, returning r.
\* On success the library sends the queued requests, calls the response
\* callback of every request whose response has arrived, and asks to be polled
\* for read only; when it finds the service gone (a request completing with
\* SERVICE_NOT_AVAILABLE) it may drop the connection: every pending request is
\* completed with that cause, the socket is closed and statusCallback is
\* called with newFd = -1. An error code is thrown by checkCynaraError, caught
\* and logged; the guard releases the mutex either way.
Process(r) ==
    /\ wpc = "process"
    /\ IF checkCynaraError(r).kind = "ret" /\ libFd = "sock"
       THEN \E gone \in {FALSE} \cup {x \in {TRUE} : ServiceGone} :
              IF gone
              THEN onDisconnected
              ELSE /\ Deliver({"ready"}, [i \in Ids |-> reqs[i].cause],
                              [i \in Ids |-> reqs[i].response])
                   /\ reqs' = [i \in Ids |->
                                 CASE reqs[i].st = "ready" -> FreeReq
                                   [] reqs[i].st = "queued" ->
                                        [reqs[i] EXCEPT !.st = "sent"]
                                   [] OTHER -> reqs[i]]
                   /\ pollFds1' = statusCallback(pollFds1, libFd, "FOR_READ")
                   /\ UNCHANGED <<libFd, produced>>
       ELSE UNCHANGED <<promise, lastCall, nCalls, reqs, pollFds1, libFd, produced>>
    /\ wErr' = IF checkCynaraError(r).kind = "ret" THEN wErr
               ELSE LogError("process")
    /\ mutex' = Free
    /\ wpc' = "enter"
    /\ UNCHANGED <<eventfd, terminate, polled, revents, cpc, check_id, result,
                   nChecks, dpc>>
    /\ UNCHANGED <<ret, nPuts>>
    /\ UNCHANGED notClientVars

\* run(), lines 685-695: the processing step, whatever the library returns.
WorkerProcess == \E r \in ProcessRets : Process(r)

\* ---- the Cynara service ----

\* How a request that was sent can complete: the service's answer, a
\* cancellation, or the loss of the service.
Outcomes == {[cause |-> "ANSWER", response |-> CYNARA_API_ACCESS_ALLOWED],
             [cause |-> "ANSWER", response |-> CYNARA_API_ACCESS_DENIED],
             [cause |-> "CANCEL", response |-> 0],
             [cause |-> "SERVICE_NOT_AVAILABLE", response |-> 0]}

\* The outcome of request i reaches the library's socket.
StoreRespond(i) ==
    /\ reqs[i].st = "sent"
    /\ libFd = "sock"
    /\ \E o \in Outcomes :
        /\ reqs' = [reqs EXCEPT ![i] = [@ EXCEPT !.st = "ready", !.cause = o.cause,
                                                  !.response = o.response]]
        /\ produced' = [produced EXCEPT ![reqs[i].owner] = o]
    /\ UNCHANGED <<mutex, eventfd, terminate, pollFds1, wpc, polled, revents, cpc,
                   promise, check_id, result, nChecks, dpc, libFd, lastCall, nCalls>>
    /\ UNCHANGED <<ret, nPuts>>
    /\ UNCHANGED <<wErr, notClientVars>>

\* ---- Cynara::~Cynara() ----

\* ~Cynara(), line 573: terminate.store(true).
DtorTerminate ==
    /\ dpc = "alive"
    /\ terminate' = TRUE
    /\ dpc' = "put"
    /\ UNCHANGED <<mutex, eventfd, pollFds1, wpc, polled, revents, cpc, promise,
                   check_id, result, nChecks, libFd, reqs, lastCall, nCalls>>
    /\ UNCHANGED <<ret, nPuts, produced>>
    /\ UNCHANGED <<wErr, notClientVars>>

\* The destructor going on to the join without writing the wake signal.
DtorNotify_NoWrite ==
    /\ dpc = "put"
    /\ dpc' = "join"
    /\ UNCHANGED <<mutex, eventfd, terminate, pollFds1, wpc, polled, revents, cpc,
                   promise, check_id, result, nChecks, libFd, reqs, lastCall,
                   nCalls>>
    /\ UNCHANGED <<ret, nPuts, produced>>
    /\ UNCHANGED <<wErr, notClientVars>>

\* ~Cynara(), line 574: threadNotifyPut().
DtorNotify ==
    /\ dpc = "put"
    /\ eventfd' = eventfd + 1
    /\ dpc' = "join"
    /\ UNCHANGED <<mutex, terminate, pollFds1, wpc, polled, revents, cpc, promise,
                   check_id, result, nChecks, libFd, reqs, lastCall, nCalls>>
    /\ UNCHANGED <<ret, nPuts, produced>>
    /\ UNCHANGED <<wErr, notClientVars>>

\* The destructor going on to the teardown without joining the worker.
DtorJoin_NoWait ==
    /\ dpc = "join"
    /\ dpc' = "lock"
    /\ UNCHANGED <<mutex, eventfd, terminate, pollFds1, wpc, polled, revents, cpc,
                   promise, check_id, result, nChecks, libFd, reqs, lastCall, nCalls>>
    /\ UNCHANGED <<ret, nPuts, produced>>
    /\ UNCHANGED <<wErr, notClientVars>>

\* ~Cynara(), line 575: thread.join() returns once run() has returned.
DtorJoin ==
    /\ dpc = "join"
    /\ wpc = "exited"
    /\ dpc' = "lock"
    /\ UNCHANGED <<mutex, eventfd, terminate, pollFds1, wpc, polled, revents, cpc,
                   promise, check_id, result, nChecks, libFd, reqs, lastCall, nCalls>>
    /\ UNCHANGED <<ret, nPuts, produced>>
    /\ UNCHANGED <<wErr, notClientVars>>

\* ~Cynara(), line 578: the lock_guard takes the mutex.
DtorLock ==
    /\ dpc = "lock"
    /\ mutex = Free
    /\ mutex' = ByDtor
    /\ dpc' = "finish"
    /\ UNCHANGED <<eventfd, terminate, pollFds1, wpc, polled, revents, cpc, promise,
                   check_id, result, nChecks, libFd, reqs, lastCall, nCalls>>
    /\ UNCHANGED <<ret, nPuts, produced>>
    /\ UNCHANGED <<wErr, notClientVars>>

\* ~Cynara(), lines 579-580: cynara_async_finish under the mutex. The library
\* calls the response callback of every request still pending with cause
\* FINISH, closes its socket and reports that through statusCallback with
\* newFd = -1.
DtorFinish ==
    /\ dpc = "finish"
    /\ Deliver({"queued", "sent", "ready"}, [i \in Ids |-> "FINISH"],
               [i \in Ids |-> 0])
    /\ produced' = [c \in Callers |->
                      IF \E i \in Ids : reqs[i].st # "free" /\ reqs[i].owner = c
                      THEN [cause |-> "FINISH", response |-> 0]
                      ELSE produced[c]]
    /\ reqs' = [i \in Ids |-> FreeReq]
    /\ libFd' = "none"
    /\ pollFds1' = IF libFd = "sock" THEN statusCallback(pollFds1, "none", "-")
                   ELSE pollFds1
    /\ mutex' = Free
    /\ dpc' = "destroyed"
    /\ UNCHANGED <<eventfd, terminate, wpc, polled, revents, cpc, check_id, result,
                   nChecks>>
    /\ UNCHANGED <<ret, nPuts>>
    /\ UNCHANGED <<wErr, notClientVars>>

(***************************************************************************)
(* The specification of the check client.                                  *)
(***************************************************************************)

\* The other classes before any call is made on them.
\* CynaraAdmin::CynaraAdmin(): the flag is false and the maps are empty.
NoReply == [code |-> CYNARA_API_SUCCESS, list |-> <<>>]
NoLookup == [op |-> "-", key |-> "-", forceRefresh |-> FALSE, calls |-> 0,
             reply |-> NoReply, err |-> "-", out |-> "-"]
CacheOf(initialized, typeToDescription, descriptionToType) ==
    [initialized |-> initialized, typeToDescription |-> typeToDescription,
     descriptionToType |-> descriptionToType]
InitDescr ==
    /\ m_policyDescriptionsInitialized = FALSE
    /\ TypeToDescription = <<>>
    /\ DescriptionToType = <<>>
    /\ dLast = NoLookup
    /\ dPre = CacheOf(FALSE, <<>>, <<>>)
    /\ dLoaded = <<>>

InitAdminIdle ==
    /\ InitDescr
    /\ aIn = [op |-> "-"]
    /\ aOut = "-"
    /\ aPolicies = <<>>
    /\ adminCalls = <<>>
    /\ aStore = {}
    /\ aErase = <<>>
    /\ aUsers = <<>>

\* No transaction is open.
NoTxn == [open |-> FALSE, rows |-> {}]
\* No call was made.
NoStoreCall == [op |-> "-", arg |-> "-", privs |-> <<>>,
                fault |-> [at |-> -1, kind |-> "none"], err |-> "none",
                out |-> <<>>]

InitStoreIdle ==
    /\ appPriv = {}
    /\ conn = "closed"
    /\ sLast = NoStoreCall
    /\ sPre = {}

InitDbIdle ==
    /\ appPkg = {}
    /\ dbBefore = {}
    /\ dbLog = <<>>
    /\ InitStoreIdle

Init == InitClient /\ InitAdminIdle /\ InitDbIdle

Caller(c) ==
    \/ CheckBegin(c)
    \/ CheckCreate(c)
    \/ CheckNotify(c)
    \/ CheckUnlock(c)
    \/ CheckGet(c)

Worker ==
    \/ WorkerPollEnter
    \/ WorkerPollReturn
    \/ WorkerPollFail
    \/ WorkerNotifyGet
    \/ WorkerCheckTerminate
    \/ WorkerSkip
    \/ WorkerLock
    \/ WorkerProcess

Destructor ==
    \/ DtorTerminate
    \/ DtorNotify
    \/ DtorJoin
    \/ DtorLock
    \/ DtorFinish

Next ==
    \/ \E c \in Callers : Caller(c)
    \/ Worker
    \/ Destructor
    \/ \E i \in Ids : StoreRespond(i)

Spec == Init /\ [][Next]_vars

\* The same client with the log of the worker kept.
InitLogged == InitCynara /\ wErr = NoErr /\ InitAdminIdle /\ InitDbIdle
SpecLogged == InitLogged /\ [][Next]_vars

\* Scheduling: every thread that can take a step eventually takes one (the
\* callers once inside check(), the worker, the destructor once it has begun),
\* and a poll() whose descriptors are ready is not interrupted for ever.
\* Nothing obliges a caller to begin a check, the destructor to begin, or the
\* service to answer.
FairSpec ==
    /\ Spec
    /\ \A c \in Callers :
          WF_vars(CheckCreate(c) \/ CheckNotify(c) \/ CheckUnlock(c) \/ CheckGet(c))
    /\ WF_vars(WorkerPollEnter \/ WorkerNotifyGet \/ WorkerCheckTerminate
               \/ WorkerSkip \/ WorkerLock \/ WorkerProcess)
    /\ SF_vars(WorkerPollReturn)
    /\ WF_vars(DtorNotify \/ DtorJoin \/ DtorLock \/ DtorFinish)

\* FairSpec with a service that answers: every request that was sent is
\* eventually completed, and the processing step does not fail for ever.
FairStoreSpec ==
    /\ FairSpec
    /\ \A i \in Ids : WF_vars(StoreRespond(i))
    /\ SF_vars(Process(CYNARA_API_SUCCESS))

(***************************************************************************)
(* Claims about the check client.                                          *)
(***************************************************************************)

\* Caller c's check() has returned or thrown after waiting on its promise.
DoneAsync(c) == cpc[c] = "done" /\ result[c].via = "async"

\* C1: whenever the response callback of a pending check is invoked with cause
\* CANCEL or FINISH, the pending check is resolved to false and the blocked
\* check() call returns false.
C1_CancelResolvesFalse ==
    \A c \in Callers :
        /\ (promise[c].n > 0 /\ lastCall[c].cause \in {"CANCEL", "FINISH"})
              => (promise[c].kind = "ret" /\ promise[c].v = FALSE)
        /\ (DoneAsync(c) /\ lastCall[c].cause \in {"CANCEL", "FINISH"})
              => result[c].out = Ret(FALSE)

\* C2: check() returns true exactly when the decision is ACCESS_ALLOWED (or
\* SUCCESS) and false exactly when it is ACCESS_DENIED, both when the decision
\* comes from the cache lookup and when it arrives as the response of an ANSWER
\* callback; any other code of the cache lookup or of the request creation
\* raises the classified error.
C2_DecisionIsReturned ==
    \A c \in Callers :
        /\ (cpc[c] = "done" /\ result[c].via = "cache") =>
              /\ ret[c] \in {CYNARA_API_ACCESS_ALLOWED, CYNARA_API_SUCCESS}
                    <=> result[c].out = Ret(TRUE)
              /\ ret[c] = CYNARA_API_ACCESS_DENIED <=> result[c].out = Ret(FALSE)
              /\ ret[c] = CYNARA_API_INVALID_PARAM
                    <=> result[c].out = Throw("InvalidParam")
        /\ (cpc[c] = "done" /\ result[c].via = "create") =>
              result[c].out = Throw("MaxPendingRequests")
        /\ (DoneAsync(c) /\ lastCall[c].cause = "ANSWER") =>
              /\ lastCall[c].response \in {CYNARA_API_ACCESS_ALLOWED, CYNARA_API_SUCCESS}
                    <=> result[c].out = Ret(TRUE)
              /\ lastCall[c].response = CYNARA_API_ACCESS_DENIED
                    <=> result[c].out = Ret(FALSE)

\* C6: once the destructor has set the termination flag and written the wake
\* signal, the shutdown wake-up is never lost (the eventfd is still readable,
\* or the worker has drained it and is about to read the flag, or has exited),
\* and the worker eventually leaves its loop and the join returns.
C6_WorkerTerminates ==
    /\ [](dpc = "join" => (eventfd > 0 \/ wpc \in {"term", "exited"}))
    /\ (dpc = "join") ~> (wpc = "exited" /\ dpc = "lock")

\* The join has returned while a check that wrote the wake signal is in flight.
C6_Witness ==
    /\ wpc = "exited"
    /\ dpc = "lock"
    /\ \E c \in Callers : cpc[c] = "wait" /\ nPuts[c] = 1 /\ promise[c].n = 0

\* C7: if shutdown is requested while every caller (two of them) is blocked on
\* its promise, all of them are resolved by the time the destructor is done
\* (force-resolved with cause FINISH when the worker did not get to them), no
\* caller stays blocked and the worker thread terminates.
C7_ShutdownResolvesAll ==
    /\ [](dpc = "destroyed" =>
             \A c \in Callers : cpc[c] = "wait" => promise[c].n = 1)
    /\ (dpc = "put" /\ \A c \in Callers : cpc[c] = "wait" /\ promise[c].n = 0)
          ~> (dpc = "destroyed" /\ wpc = "exited"
              /\ \A c \in Callers : cpc[c] = "done")

\* Both callers were force-resolved by the destructor and have returned.
C7_Witness ==
    /\ dpc = "destroyed"
    /\ \A c \in Callers : DoneAsync(c) /\ lastCall[c].cause = "FINISH"

\* C8: a check() whose cache lookup returns anything but CACHE_MISS returns or
\* throws straight from the lookup result: it created no request, wrote no
\* wake signal and never waited on its promise; a check() is on the
\* asynchronous path only after a cache miss.
C8_CacheHitStaysLocal ==
    \A c \in Callers :
        /\ (nChecks > 0 /\ cpc[c] # "idle" /\ ret[c] # CYNARA_API_CACHE_MISS) =>
              /\ cpc[c] = "done"
              /\ result[c] = [out |-> checkCynaraError(ret[c]), via |-> "cache"]
              /\ check_id[c] = 0
              /\ nPuts[c] = 0
              /\ promise[c].n = 0 /\ nCalls[c] = 0
              /\ \A i \in Ids : reqs[i].st # "free" => reqs[i].owner # c
        /\ (cpc[c] \in {"create", "notify", "unlock", "wait"}
            \/ (cpc[c] = "done" /\ result[c].via \in {"create", "async"}))
              => ret[c] = CYNARA_API_CACHE_MISS

\* A cache hit returned while the other caller's request is with the service.
C8_Witness ==
    \E c \in Callers :
        /\ cpc[c] = "done" /\ ret[c] = CYNARA_API_ACCESS_DENIED
        /\ \E d \in Callers : d # c /\ cpc[d] = "wait"

\* C9: when the response callback of a pending check is invoked with cause
\* SERVICE_NOT_AVAILABLE, the promise holds a failure, not a boolean, and the
\* blocked check() throws ServiceNotAvailable.
C9_ServiceNotAvailableThrows ==
    \A c \in Callers :
        /\ (promise[c].n > 0 /\ lastCall[c].cause = "SERVICE_NOT_AVAILABLE")
              => (promise[c].kind = "throw" /\ promise[c].e = "ServiceNotAvailable")
        /\ (DoneAsync(c) /\ lastCall[c].cause = "SERVICE_NOT_AVAILABLE")
              => result[c].out = Throw("ServiceNotAvailable")

C9_Witness ==
    \E c \in Callers : DoneAsync(c) /\ lastCall[c].cause = "SERVICE_NOT_AVAILABLE"

\* C10: each pending check is resolved exactly once: a promise is never set
\* twice, every response callback sets the promise it is given, the callback
\* that resolved a caller's promise was the one of the request that caller
\* created and carried the outcome produced for that request, and check()
\* returns from the wait only with its promise resolved.
C10_ResolvedExactlyOnce ==
    \A c \in Callers :
        /\ promise[c].n <= 1
        /\ nCalls[c] = promise[c].n
        /\ promise[c].n = 1 =>
              /\ lastCall[c].id = check_id[c]
              /\ lastCall[c].cause = produced[c].cause
              /\ lastCall[c].response = produced[c].response
        /\ DoneAsync(c) =>
              /\ promise[c].n = 1
              /\ result[c].out.kind = promise[c].kind
              /\ result[c].out.v = promise[c].v
        /\ cpc[c] \in {"create", "notify", "unlock"} => promise[c].n = 0

\* Two requests completed in the order opposite to their creation, each caller
\* getting its own outcome.
C10_Witness ==
    /\ \A c \in Callers : DoneAsync(c) /\ lastCall[c].cause = "ANSWER"
    /\ check_id[1] = 1 /\ check_id[2] = 2
    /\ lastCall[1].response = CYNARA_API_ACCESS_ALLOWED
    /\ lastCall[2].response = CYNARA_API_ACCESS_DENIED

(***************************************************************************)
(* class CynaraAdmin: the administrative client.                           *)
(***************************************************************************)

\* Privilege names in lexicographic order; the model uses the first MaxPriv.
MaxPriv == 4
PrivNames == <<"a", "b", "c", "d", "e", "f">>
Privileges == {PrivNames[k] : k \in 1..MaxPriv}
Rank(p) == CHOOSE k \in 1..Len(PrivNames) : PrivNames[k] = p

Labels == {"app1", "app2"}
Uids == {0, 5001}

CYNARA_ADMIN_WILDCARD == "*"

\* The sorted, duplicate-free sequence of the privileges in S.
RECURSIVE SortedSeq(_)
SortedSeq(S) ==
    IF S = {} THEN <<>>
    ELSE LET m == CHOOSE x \in S : \A y \in S : Rank(x) <= Rank(y)
         IN <<m>> \o SortedSeq(S \ {m})

\* The inputs UpdateAppPolicy is specified for.
SortedPrivSeqs == {SortedSeq(S) : S \in SUBSET Privileges}

\* CynaraAdminPolicy(client, user, privilege, operation, bucket)
PolicyOp(client, user, privilege, operation, bucket) ==
    [bucket |-> bucket, client |-> client, user |-> user,
     privilege |-> privilege, result |-> operation, result_extra |-> "-"]

\* CynaraAdminPolicy(client, user, privilege, goToBucket, bucket)
PolicyGoTo(client, user, privilege, goToBucket, bucket) ==
    [bucket |-> bucket, client |-> client, user |-> user,
     privilege |-> privilege, result |-> "Bucket", result_extra |-> goToBucket]

\* CynaraAdmin::Buckets
Buckets(b) ==
    CASE b = "PRIVACY_MANAGER" -> ""
      [] OTHER -> b

\* The comparison with its operands exchanged.
compare_Swapped(a, b) ==
    IF Rank(a) = Rank(b) THEN 0 ELSE IF Rank(b) < Rank(a) THEN -1 ELSE 1

\* int compare = oldIter->compare(*newIter): negative, zero or positive.
compare(a, b) ==
    IF Rank(a) = Rank(b) THEN 0 ELSE IF Rank(a) < Rank(b) THEN -1 ELSE 1

\* UpdateAppPolicy, lines 296-338: the sort-merge join of oldPrivileges and
\* newPrivileges from positions i and j on, policies collected in acc.
RECURSIVE MergeJoin(_, _, _, _, _, _, _)
MergeJoin(label, user, old, new, i, j, acc) ==
    IF i <= Len(old) /\ j <= Len(new)
    THEN IF compare(old[i], new[j]) = 0
         THEN MergeJoin(label, user, old, new, i + 1, j + 1, acc)
         ELSE IF compare(old[i], new[j]) < 0
         THEN MergeJoin(label, user, old, new, i + 1, j,
                        Append(acc, PolicyOp(label, user, old[i], "Delete",
                                             Buckets("MANIFESTS"))))
         ELSE MergeJoin(label, user, old, new, i, j + 1,
                        Append(acc, PolicyOp(label, user, new[j], "Allow",
                                             Buckets("MANIFESTS"))))
    ELSE IF i <= Len(old)
    THEN MergeJoin(label, user, old, new, i + 1, j,
                   Append(acc, PolicyOp(label, user, old[i], "Delete",
                                        Buckets("MANIFESTS"))))
    ELSE IF j <= Len(new)
    THEN MergeJoin(label, user, old, new, i, j + 1,
                   Append(acc, PolicyOp(label, user, new[j], "Allow",
                                        Buckets("MANIFESTS"))))
    ELSE acc

\* The codes cynara_admin_set_policies can return.
AdminRets == {CYNARA_API_SUCCESS, CYNARA_API_OPERATION_FAILED}

\* What checkCynaraError makes of a code for a void caller.
Outcome(code) ==
    IF checkCynaraError(code).kind = "throw" THEN checkCynaraError(code).e ELSE "ok"

\* The rule of a store with the bucket, client, user and privilege of p.
SameKey(rule, p) ==
    /\ rule.bucket = p.bucket /\ rule.client = p.client
    /\ rule.user = p.user /\ rule.privilege = p.privilege

\* cynara_admin_set_policies on success: the rules are applied in order, a
\* Delete removing the rule of its key, any other replacing it.
RECURSIVE cynara_admin_set_policies(_, _)
cynara_admin_set_policies(store, policies) ==
    IF policies = <<>> THEN store
    ELSE cynara_admin_set_policies(
             {rule \in store : ~SameKey(rule, Head(policies))}
                 \cup (IF Head(policies).result = "Delete" THEN {}
                       ELSE {Head(policies)}),
             Tail(policies))

\* SetPolicies without the test for an empty vector.
SetPolicies_NoEmptyCheck(policies, r) ==
    /\ aPolicies' = <<policies>>
    /\ adminCalls' = <<policies>> /\ aOut' = Outcome(r)
    /\ aStore' = IF r = CYNARA_API_SUCCESS
                 THEN cynara_admin_set_policies(aStore, policies) ELSE aStore

\* void CynaraAdmin::SetPolicies(policies), the store answering r: an empty
\* vector returns at once; otherwise the whole vector goes to
\* cynara_admin_set_policies in one call.
SetPolicies(policies, r) ==
    /\ aPolicies' = <<policies>>
    /\ IF policies = <<>>
       THEN adminCalls' = <<>> /\ aOut' = "ok" /\ aStore' = aStore
       ELSE /\ adminCalls' = <<policies>> /\ aOut' = Outcome(r)
            /\ aStore' = IF r = CYNARA_API_SUCCESS
                         THEN cynara_admin_set_policies(aStore, policies)
                         ELSE aStore

\* UpdateAppPolicy taking no account of oldPrivileges.
UpdateAppPolicy_OnlyAdds(label, user, old, new) ==
    /\ UNCHANGED <<aIn, aErase, aUsers>>
    /\ \E r \in AdminRets :
          SetPolicies(MergeJoin(label, user, <<>>, new, 1, 1, <<>>), r)
    /\ UNCHANGED <<clientVars, dbVars, storeVars, descrVars>>

\* void CynaraAdmin::UpdateAppPolicy(label, user, oldPrivileges, newPrivileges)
UpdateAppPolicy(label, user, old, new) ==
    /\ UNCHANGED <<aIn, aErase, aUsers>>
    /\ \E r \in AdminRets :
          SetPolicies(MergeJoin(label, user, old, new, 1, 1, <<>>), r)
    /\ UNCHANGED <<clientVars, dbVars, storeVars, descrVars>>

\* security_manager_user_type, and a value outside the enumeration.
UserTypes == {"SM_USER_TYPE_NONE", "SM_USER_TYPE_ANY", "SM_USER_TYPE_SYSTEM",
              "SM_USER_TYPE_ADMIN", "SM_USER_TYPE_GUEST", "SM_USER_TYPE_NORMAL",
              "SM_USER_TYPE_END", "OUT_OF_RANGE"}

\* The switch with SM_USER_TYPE_ANY sharing the case of SM_USER_TYPE_NORMAL.
UserTypeBucket_AnyIsNormal(userType) ==
    CASE userType = "SM_USER_TYPE_SYSTEM" -> "USER_TYPE_SYSTEM"
      [] userType = "SM_USER_TYPE_ADMIN" -> "USER_TYPE_ADMIN"
      [] userType = "SM_USER_TYPE_GUEST" -> "USER_TYPE_GUEST"
      [] userType \in {"SM_USER_TYPE_NORMAL", "SM_USER_TYPE_ANY"} -> "USER_TYPE_NORMAL"
      [] OTHER -> ""

\* UserInit, lines 348-366: the bucket of a user type, "" when the switch throws.
UserTypeBucket(userType) ==
    CASE userType = "SM_USER_TYPE_SYSTEM" -> "USER_TYPE_SYSTEM"
      [] userType = "SM_USER_TYPE_ADMIN" -> "USER_TYPE_ADMIN"
      [] userType = "SM_USER_TYPE_GUEST" -> "USER_TYPE_GUEST"
      [] userType = "SM_USER_TYPE_NORMAL" -> "USER_TYPE_NORMAL"
      [] OTHER -> ""

\* void CynaraAdmin::UserInit(uid, userType)
UserInit(uid, userType) ==
    /\ UNCHANGED <<aIn, aErase, aUsers>>
    /\ IF UserTypeBucket(userType) = ""
       THEN /\ aOut' = "InvalidParam"
            /\ aPolicies' = <<>>
            /\ adminCalls' = <<>>
            /\ aStore' = aStore
       ELSE \E r \in AdminRets :
               SetPolicies(<<PolicyGoTo(CYNARA_ADMIN_WILDCARD, ToString(uid),
                                        CYNARA_ADMIN_WILDCARD,
                                        Buckets(UserTypeBucket(userType)),
                                        Buckets("MAIN"))>>, r)
    /\ UNCHANGED <<clientVars, dbVars, storeVars, descrVars>>

CYNARA_ADMIN_ANY == "#"

\* The policies that lead from bucket to bucket: PRIVACY_MANAGER to MAIN,
\* MAIN to MANIFESTS, MANIFESTS and the user-type buckets to ADMIN.
BucketLinks ==
    {PolicyGoTo(CYNARA_ADMIN_WILDCARD, CYNARA_ADMIN_WILDCARD,
                CYNARA_ADMIN_WILDCARD, Buckets("MAIN"),
                Buckets("PRIVACY_MANAGER")),
     PolicyGoTo(CYNARA_ADMIN_WILDCARD, CYNARA_ADMIN_WILDCARD,
                CYNARA_ADMIN_WILDCARD, Buckets("MANIFESTS"), Buckets("MAIN")),
     PolicyGoTo(CYNARA_ADMIN_WILDCARD, CYNARA_ADMIN_WILDCARD,
                CYNARA_ADMIN_WILDCARD, Buckets("ADMIN"), Buckets("MANIFESTS")),
     PolicyGoTo(CYNARA_ADMIN_WILDCARD, CYNARA_ADMIN_WILDCARD,
                CYNARA_ADMIN_WILDCARD, Buckets("ADMIN"),
                Buckets("USER_TYPE_NORMAL"))}

\* The rules a user can have: an override in PRIVACY_MANAGER, the redirect
\* UserInit wrote in MAIN, a grant UpdateAppPolicy wrote in MANIFESTS.
UserRules ==
    UNION {{PolicyOp("app1", ToString(u), "a", "Deny", Buckets("PRIVACY_MANAGER")),
            PolicyGoTo(CYNARA_ADMIN_WILDCARD, ToString(u), CYNARA_ADMIN_WILDCARD,
                       Buckets("USER_TYPE_NORMAL"), Buckets("MAIN")),
            PolicyOp("app1", ToString(u), "a", "Allow", Buckets("MANIFESTS"))}
           : u \in Uids}

\* A filter matches a value when it is that value or CYNARA_ADMIN_ANY.
FilterMatches(filter, value) == filter = CYNARA_ADMIN_ANY \/ filter = value
PolicyMatches(rule, client, user, privilege) ==
    /\ FilterMatches(client, rule.client)
    /\ FilterMatches(user, rule.user)
    /\ FilterMatches(privilege, rule.privilege)

\* The buckets a recursive erase visits: those of B and every bucket a
\* policy of a visited bucket leads to.
RECURSIVE NestedBuckets(_, _)
NestedBuckets(store, B) ==
    LET next == B \cup {rule.result_extra :
                           rule \in {x \in store : /\ x.bucket \in B
                                                   /\ x.result = "Bucket"}}
    IN IF next = B THEN B ELSE NestedBuckets(store, next)

\* cynara_admin_erase on success: the policies matching the filter are
\* removed from start_bucket and, if recursive, from the nested buckets.
cynara_admin_erase(store, start_bucket, recursive, client, user, privilege) ==
    {rule \in store :
        ~(/\ rule.bucket \in (IF recursive
                              THEN NestedBuckets(store, {start_bucket})
                              ELSE {start_bucket})
          /\ PolicyMatches(rule, client, user, privilege))}

\* EmptyBucket calling a non-recursive erase.
EmptyBucket_NotRecursive(bucketName, recursive, client, user, privilege, r) ==
    /\ aErase' = Append(aErase, [bucket |-> bucketName, recursive |-> FALSE,
                                 client |-> client, user |-> user,
                                 privilege |-> privilege])
    /\ aOut' = Outcome(r)
    /\ aStore' = IF r = CYNARA_API_SUCCESS
                 THEN cynara_admin_erase(aStore, bucketName, FALSE, client,
                                         user, privilege)
                 ELSE aStore

\* void CynaraAdmin::EmptyBucket(bucketName, recursive, client, user,
\* privilege), the store answering r.
EmptyBucket(bucketName, recursive, client, user, privilege, r) ==
    /\ aErase' = Append(aErase, [bucket |-> bucketName, recursive |-> recursive,
                                 client |-> client, user |-> user,
                                 privilege |-> privilege])
    /\ aOut' = Outcome(r)
    /\ aStore' = IF r = CYNARA_API_SUCCESS
                 THEN cynara_admin_erase(aStore, bucketName, recursive, client,
                                         user, privilege)
                 ELSE aStore

\* void CynaraAdmin::UserRemove(uid)
UserRemove(uid) ==
    /\ UNCHANGED <<aIn, aPolicies, adminCalls, aUsers>>
    /\ \E r \in AdminRets :
          EmptyBucket(Buckets("PRIVACY_MANAGER"), TRUE, CYNARA_ADMIN_ANY,
                      ToString(uid), CYNARA_ADMIN_ANY, r)
    /\ UNCHANGED <<clientVars, dbVars, storeVars, descrVars>>

\* The user tokens of the rules ListUsers reads, and their characters.
UserTokens == {"0", "5001", "12abc", "abc", "99999999999999999999999"}
CharsOf(token) ==
    CASE token = "0" -> <<"0">>
      [] token = "5001" -> <<"5", "0", "0", "1">>
      [] token = "12abc" -> <<"1", "2", "a", "b", "c">>
      [] token = "abc" -> <<"a", "b", "c">>
      [] token = "99999999999999999999999" -> [k \in 1..23 |-> "9"]
      [] token = CYNARA_ADMIN_WILDCARD -> <<"*">>

Digits == <<"0", "1", "2", "3", "4", "5", "6", "7", "8", "9">>
IsDigit(ch) == \E d \in 1..10 : Digits[d] = ch
DigitValue(ch) == (CHOOSE d \in 1..10 : Digits[d] = ch) - 1

\* The longest prefix of chars made of digits.
RECURSIVE DigitPrefix(_)
DigitPrefix(chars) ==
    IF chars # <<>> /\ IsDigit(Head(chars))
    THEN <<Head(chars)>> \o DigitPrefix(Tail(chars))
    ELSE <<>>

\* A digit sequence without its leading zeros.
RECURSIVE Significant(_)
Significant(digits) ==
    IF digits # <<>> /\ Head(digits) = "0" THEN Significant(Tail(digits))
    ELSE digits

\* The number a sequence of at most nine digits denotes.
RECURSIVE DecimalValue(_)
DecimalValue(digits) ==
    IF digits = <<>> THEN 0
    ELSE 10 * DecimalValue(SubSeq(digits, 1, Len(digits) - 1))
            + DigitValue(digits[Len(digits)])

\* Every number of more than ULongDigits digits exceeds ULONG_MAX, which has
\* that many; the tokens of the model have fewer or more.
ULongDigits == 20

\* std::stoul(user): converts the leading digits and ignores what follows;
\* no leading digit is std::invalid_argument, a value above ULONG_MAX is
\* std::out_of_range.
stoul(chars) ==
    IF DigitPrefix(chars) = <<>>
    THEN [kind |-> "std::invalid_argument", v |-> 0]
    ELSE IF Len(Significant(DigitPrefix(chars))) > ULongDigits
    THEN [kind |-> "std::out_of_range", v |-> 0]
    ELSE [kind |-> "value", v |-> DecimalValue(Significant(DigitPrefix(chars)))]

\* cynara_admin_list_policies on success: the policies of the bucket that
\* match the filter, in the order the store returns them.
RECURSIVE PoliciesInOrder(_)
PoliciesInOrder(S) ==
    IF S = {} THEN <<>>
    ELSE LET first == CHOOSE x \in S : TRUE
         IN <<first>> \o PoliciesInOrder(S \ {first})
cynara_admin_list_policies(store, bucket, client, user, privilege) ==
    PoliciesInOrder({rule \in store : /\ rule.bucket = bucket
                                      /\ PolicyMatches(rule, client, user,
                                                       privilege)})

\* void CynaraAdmin::ListPolicies(bucketName, appId, user, privilege,
\* policies), the store answering r: the policies listed, or the exception.
ListPolicies(store, bucketName, appId, user, privilege, r) ==
    IF checkCynaraError(r).kind = "throw"
    THEN [err |-> Outcome(r), policies |-> <<>>]
    ELSE [err |-> "ok",
          policies |-> cynara_admin_list_policies(store, bucketName, appId,
                                                  user, privilege)]

\* ListUsers, lines 387-397: the loop over tmpListOfUsers from position k.
RECURSIVE ListUsersLoop(_, _, _)
ListUsersLoop(tmpListOfUsers, k, listOfUsers) ==
    IF k > Len(tmpListOfUsers) THEN [err |-> "ok", out |-> listOfUsers]
    ELSE IF tmpListOfUsers[k].user = CYNARA_ADMIN_WILDCARD
    THEN ListUsersLoop(tmpListOfUsers, k + 1, listOfUsers)
    ELSE IF stoul(CharsOf(tmpListOfUsers[k].user)).kind = "value"
    THEN ListUsersLoop(tmpListOfUsers, k + 1,
             Append(listOfUsers, stoul(CharsOf(tmpListOfUsers[k].user)).v))
    ELSE IF stoul(CharsOf(tmpListOfUsers[k].user)).kind = "std::invalid_argument"
    THEN ListUsersLoop(tmpListOfUsers, k + 1, listOfUsers)
    ELSE [err |-> stoul(CharsOf(tmpListOfUsers[k].user)).kind,
          out |-> listOfUsers]

\* void CynaraAdmin::ListUsers(listOfUsers), the caller passing an empty vector
ListUsers ==
    /\ UNCHANGED <<aIn, aPolicies, adminCalls, aStore, aErase>>
    /\ \E r \in AdminRets :
          LET listed == ListPolicies(aStore, Buckets("MAIN"),
                                     CYNARA_ADMIN_WILDCARD, CYNARA_ADMIN_ANY,
                                     CYNARA_ADMIN_WILDCARD, r)
              looped == ListUsersLoop(listed.policies, 1, <<>>)
          IN IF listed.err # "ok"
             THEN aOut' = listed.err /\ aUsers' = <<>>
             ELSE aOut' = looped.err /\ aUsers' = looped.out
    /\ UNCHANGED <<clientVars, dbVars, storeVars, descrVars>>

\* The rules of MAIN ListUsers can meet: a redirect for each user token, and
\* a rule for one client.
MainRules ==
    {PolicyGoTo(CYNARA_ADMIN_WILDCARD, t, CYNARA_ADMIN_WILDCARD,
                Buckets("USER_TYPE_NORMAL"), Buckets("MAIN")) : t \in UserTokens}
    \cup {PolicyOp("app1", "5001", "a", "Deny", Buckets("MAIN"))}

\* The calls made on CynaraAdmin, with their arguments and, for UserRemove
\* and ListUsers, the rules the store holds.
AdminInputs ==
    [op : {"UpdateAppPolicy"}, label : Labels, user : {ToString(u) : u \in Uids},
     old : SortedPrivSeqs, new : SortedPrivSeqs]
    \cup [op : {"UserInit"}, uid : Uids, userType : UserTypes]
    \cup [op : {"UserRemove"}, uid : Uids,
          store : {BucketLinks \cup S : S \in SUBSET UserRules}]
    \cup [op : {"ListUsers"},
          store : {BucketLinks \cup S : S \in SUBSET MainRules}]

\* The Allow rules of bucket MANIFESTS for (label, user) and the privileges
\* of the sequence privileges.
Grants(label, user, privileges) ==
    {PolicyOp(label, user, privileges[k], "Allow", Buckets("MANIFESTS"))
        : k \in 1..Len(privileges)}

\* Grants of bucket MANIFESTS that belong to other (label, user) pairs.
OtherGrants(label, user) ==
    {PolicyOp(l, user, "a", "Allow", Buckets("MANIFESTS")) : l \in Labels \ {label}}
    \cup {PolicyOp(label, ToString(u), "b", "Allow", Buckets("MANIFESTS"))
             : u \in {x \in Uids : ToString(x) # user}}

\* The store before the call: the bucket links and, for UpdateAppPolicy, the
\* grants of oldPrivileges next to grants of other applications and users.
StoreBefore(in) ==
    CASE in.op = "UpdateAppPolicy" ->
            BucketLinks \cup Grants(in.label, in.user, in.old)
                        \cup OtherGrants(in.label, in.user)
      [] in.op \in {"UserRemove", "ListUsers"} -> in.store
      [] OTHER -> BucketLinks

\* One call is about to be made on a CynaraAdmin that has made none.
InitAdmin ==
    /\ InitClient
    /\ InitDbIdle
    /\ aIn \in AdminInputs
    /\ aOut = "pending"
    /\ aPolicies = <<>>
    /\ adminCalls = <<>>
    /\ aStore = StoreBefore(aIn)
    /\ aErase = <<>>
    /\ aUsers = <<>>
    /\ InitDescr

CallUpdateAppPolicy ==
    /\ aOut = "pending" /\ aIn.op = "UpdateAppPolicy"
    /\ UpdateAppPolicy(aIn.label, aIn.user, aIn.old, aIn.new)

CallUserInit ==
    /\ aOut = "pending" /\ aIn.op = "UserInit"
    /\ UserInit(aIn.uid, aIn.userType)

CallUserRemove ==
    /\ aOut = "pending" /\ aIn.op = "UserRemove"
    /\ UserRemove(aIn.uid)

CallListUsers ==
    /\ aOut = "pending" /\ aIn.op = "ListUsers"
    /\ ListUsers

NextAdmin ==
    \/ CallUpdateAppPolicy
    \/ CallUserInit
    \/ CallUserRemove
    \/ CallListUsers

SpecAdmin == InitAdmin /\ [][NextAdmin]_vars

\* The rules of the vector the last call passed to SetPolicies.
Batch == IF aPolicies = <<>> THEN <<>> ELSE aPolicies[1]
InSeq(q, x) == \E k \in 1..Len(q) : q[k] = x
RulesFor(p) == {k \in 1..Len(Batch) : Batch[k].privilege = p}

\* C3: for sorted, duplicate-free old and new, the batch UpdateAppPolicy hands
\* to SetPolicies holds exactly one Delete rule for each privilege in old but
\* not in new, exactly one Allow rule for each privilege in new but not in
\* old, no rule for a privilege in both (or in neither), and every rule is in
\* bucket MANIFESTS with the given label and user.
C3_DiffCorrect ==
    (aIn.op = "UpdateAppPolicy" /\ aOut # "pending") =>
        /\ Len(aPolicies) = 1
        /\ \A p \in Privileges :
              /\ (InSeq(aIn.old, p) /\ ~InSeq(aIn.new, p)) =>
                    /\ Cardinality(RulesFor(p)) = 1
                    /\ \A k \in RulesFor(p) : Batch[k].result = "Delete"
              /\ (InSeq(aIn.new, p) /\ ~InSeq(aIn.old, p)) =>
                    /\ Cardinality(RulesFor(p)) = 1
                    /\ \A k \in RulesFor(p) : Batch[k].result = "Allow"
              /\ (InSeq(aIn.old, p) <=> InSeq(aIn.new, p)) => RulesFor(p) = {}
        /\ \A k \in 1..Len(Batch) :
              /\ Batch[k].bucket = "MANIFESTS"
              /\ Batch[k].client = aIn.label
              /\ Batch[k].user = aIn.user
              /\ Batch[k].privilege \in Privileges

\* old = [a, b, c], new = [b, c, d] gave exactly Delete(a) and Allow(d).
C3_Witness ==
    /\ aIn.op = "UpdateAppPolicy" /\ aOut = "ok"
    /\ aIn.old = <<"a", "b", "c">> /\ aIn.new = <<"b", "c", "d">>
    /\ aIn.label = "app1" /\ aIn.user = "5001"
    /\ Batch = <<PolicyOp("app1", "5001", "a", "Delete", "MANIFESTS"),
                 PolicyOp("app1", "5001", "d", "Allow", "MANIFESTS")>>

\* C5: UserInit(uid, userType) for ADMIN, SYSTEM, GUEST or NORMAL submits
\* exactly one rule: bucket MAIN, wildcard client, user uid, wildcard
\* privilege, a redirect to the USER_TYPE_ bucket of that type; for any other
\* userType it raises InvalidParam and makes no call to the policy store.
C5_UserInitBucket ==
    (aIn.op = "UserInit" /\ aOut # "pending") =>
        IF aIn.userType \in {"SM_USER_TYPE_ADMIN", "SM_USER_TYPE_SYSTEM",
                             "SM_USER_TYPE_GUEST", "SM_USER_TYPE_NORMAL"}
        THEN /\ aOut # "InvalidParam"
             /\ Len(adminCalls) = 1
             /\ adminCalls[1] =
                  <<[bucket |-> "MAIN", client |-> "*",
                     user |-> ToString(aIn.uid), privilege |-> "*",
                     result |-> "Bucket",
                     result_extra |->
                        CASE aIn.userType = "SM_USER_TYPE_ADMIN" -> "USER_TYPE_ADMIN"
                          [] aIn.userType = "SM_USER_TYPE_SYSTEM" -> "USER_TYPE_SYSTEM"
                          [] aIn.userType = "SM_USER_TYPE_GUEST" -> "USER_TYPE_GUEST"
                          [] aIn.userType = "SM_USER_TYPE_NORMAL" -> "USER_TYPE_NORMAL"]>>
        ELSE /\ aOut = "InvalidParam"
             /\ aPolicies = <<>>
             /\ adminCalls = <<>>

\* An ADMIN user was initialised with one rule sent to the store.
C5_Witness ==
    /\ aIn.op = "UserInit"
    /\ aIn.userType = "SM_USER_TYPE_ADMIN" /\ aIn.uid = 5001
    /\ aOut = "ok"
    /\ adminCalls[1][1].result_extra = "USER_TYPE_ADMIN"

(***************************************************************************)
(* class CynaraAdmin: the cache of policy descriptions.                    *)
(***************************************************************************)

\* The result codes and names looked up, and the lists
\* cynara_admin_list_policies_descriptions can return.
PolicyTypes == {0, 10, 65535}
PolicyNames == {"Deny", "Ask user", "Allow"}
Descr(name, type) == [name |-> name, result |-> type]
DescriptionLists ==
    {<<>>,
     <<Descr("Allow", 65535)>>,
     <<Descr("Deny", 0), Descr("Allow", 65535)>>,
     <<Descr("Deny", 0), Descr("Ask user", 10), Descr("Allow", 65535)>>}
\* What the store answers: a code and, on success, a list.
DescriptionReplies ==
    [code : {CYNARA_API_SUCCESS}, list : DescriptionLists]
    \cup [code : {CYNARA_API_OPERATION_FAILED}, list : {<<>>}]

\* map[key] = value of std::map.
Put(map, key, value) ==
    [k \in DOMAIN map \cup {key} |-> IF k = key THEN value ELSE map[k]]

\* FetchCynaraPolicyDescriptions, lines 469-477: the loop over descriptions.
RECURSIVE ExtractStrings(_, _, _)
ExtractStrings(descriptions, i, cache) ==
    IF i > Len(descriptions) THEN cache
    ELSE ExtractStrings(descriptions, i + 1,
             CacheOf(cache.initialized,
                     Put(cache.typeToDescription, descriptions[i].result,
                         descriptions[i].name),
                     Put(cache.descriptionToType, descriptions[i].name,
                         descriptions[i].result)))

\* FetchCynaraPolicyDescriptions resetting the state before it looks at the
\* list: an empty list leaves the maps empty and the flag false.
FetchCynaraPolicyDescriptions_ResetsFirst(forceRefresh, cache, reply) ==
    IF ~forceRefresh /\ cache.initialized
    THEN [cache |-> cache, calls |-> 0, err |-> "ok"]
    ELSE IF checkCynaraError(reply.code).kind = "throw"
    THEN [cache |-> cache, calls |-> 1, err |-> Outcome(reply.code)]
    ELSE IF reply.list = <<>>
    THEN [cache |-> CacheOf(FALSE, <<>>, <<>>), calls |-> 1, err |-> "ok"]
    ELSE [cache |-> CacheOf(TRUE,
                            ExtractStrings(reply.list, 1,
                                CacheOf(FALSE, <<>>, <<>>)).typeToDescription,
                            ExtractStrings(reply.list, 1,
                                CacheOf(FALSE, <<>>, <<>>)).descriptionToType),
          calls |-> 1, err |-> "ok"]

\* FetchCynaraPolicyDescriptions fetching whatever the flag says.
FetchCynaraPolicyDescriptions_AlwaysFetches(forceRefresh, cache, reply) ==
    IF checkCynaraError(reply.code).kind = "throw"
    THEN [cache |-> cache, calls |-> 1, err |-> Outcome(reply.code)]
    ELSE IF reply.list = <<>>
    THEN [cache |-> cache, calls |-> 1, err |-> "ok"]
    ELSE [cache |-> CacheOf(TRUE,
                            ExtractStrings(reply.list, 1,
                                CacheOf(FALSE, <<>>, <<>>)).typeToDescription,
                            ExtractStrings(reply.list, 1,
                                CacheOf(FALSE, <<>>, <<>>)).descriptionToType),
          calls |-> 1, err |-> "ok"]

\* void CynaraAdmin::FetchCynaraPolicyDescriptions(forceRefresh), the store
\* answering reply if asked: the cache after it, the calls made on the store
\* and the exception thrown, if any.
FetchCynaraPolicyDescriptions(forceRefresh, cache, reply) ==
    IF ~forceRefresh /\ cache.initialized
    THEN [cache |-> cache, calls |-> 0, err |-> "ok"]
    ELSE IF checkCynaraError(reply.code).kind = "throw"
    THEN [cache |-> cache, calls |-> 1, err |-> Outcome(reply.code)]
    ELSE IF reply.list = <<>>
    THEN [cache |-> cache, calls |-> 1, err |-> "ok"]
    ELSE [cache |-> CacheOf(TRUE,
                            ExtractStrings(reply.list, 1,
                                CacheOf(FALSE, <<>>, <<>>)).typeToDescription,
                            ExtractStrings(reply.list, 1,
                                CacheOf(FALSE, <<>>, <<>>)).descriptionToType),
          calls |-> 1, err |-> "ok"]

\* std::map::at: the value of the key, or std::out_of_range.
at(map, key) ==
    IF key \in DOMAIN map
    THEN [err |-> "ok", out |-> [found |-> TRUE, value |-> map[key]]]
    ELSE [err |-> "std::out_of_range", out |-> [found |-> FALSE, value |-> "-"]]

\* A lookup: the fetch, then at() on one of the two maps.
Lookup(op, key, forceRefresh, reply, fetched, found) ==
    /\ m_policyDescriptionsInitialized' = fetched.cache.initialized
    /\ TypeToDescription' = fetched.cache.typeToDescription
    /\ DescriptionToType' = fetched.cache.descriptionToType
    /\ dPre' = CacheOf(m_policyDescriptionsInitialized, TypeToDescription,
                       DescriptionToType)
    /\ dLoaded' = IF fetched.calls = 1 /\ fetched.err = "ok" /\ reply.list # <<>>
                  THEN reply.list ELSE dLoaded
    /\ dLast' = [op |-> op, key |-> key, forceRefresh |-> forceRefresh,
                 calls |-> fetched.calls,
                 reply |-> IF fetched.calls = 0 THEN NoReply ELSE reply,
                 err |-> IF fetched.err # "ok" THEN fetched.err ELSE found.err,
                 out |-> IF fetched.err # "ok" THEN "-"
                         ELSE IF found.out.found THEN found.out.value ELSE "-"]
    /\ UNCHANGED <<clientVars, adminVars, dbVars, storeVars>>

\* std::string CynaraAdmin::convertToPolicyDescription(policyType, forceRefresh)
convertToPolicyDescription ==
    \E policyType \in PolicyTypes, forceRefresh \in BOOLEAN,
       reply \in DescriptionReplies :
        LET fetched == FetchCynaraPolicyDescriptions(forceRefresh,
                           CacheOf(m_policyDescriptionsInitialized,
                                   TypeToDescription, DescriptionToType), reply)
        IN Lookup("convertToPolicyDescription", policyType, forceRefresh, reply,
                  fetched, at(fetched.cache.typeToDescription, policyType))

\* int CynaraAdmin::convertToPolicyType(policy, forceRefresh)
convertToPolicyType ==
    \E policy \in PolicyNames, forceRefresh \in BOOLEAN,
       reply \in DescriptionReplies :
        LET fetched == FetchCynaraPolicyDescriptions(forceRefresh,
                           CacheOf(m_policyDescriptionsInitialized,
                                   TypeToDescription, DescriptionToType), reply)
        IN Lookup("convertToPolicyType", policy, forceRefresh, reply,
                  fetched, at(fetched.cache.descriptionToType, policy))

InitDescriptions == InitClient /\ InitAdminIdle /\ InitDbIdle

NextDescriptions ==
    \/ convertToPolicyDescription
    \/ convertToPolicyType

SpecDescriptions == InitDescriptions /\ [][NextDescriptions]_vars

(***************************************************************************)
(* class PrivilegeDb: the application and package tables.                  *)
(***************************************************************************)

\* PrivilegeDb calls made in one run.
MaxDbCalls == 4

Apps == {"app1", "app2"}
Pkgs == {"pkgA", "pkgB"}

\* The statements behind Queries.at(...), which privilege_db.h holds: what
\* each does to the application table.
\* EPkgIdExists: the rows of the applications of pkgId.
QueryPkgIdExists(table, pkgId) == {row \in table : row.pkg = pkgId}
\* EAddApplication: inserts (appId, pkgId); an application already present
\* violates the uniqueness constraint and nothing is inserted.
QueryAddApplicationConflicts(table, appId) == \E row \in table : row.app = appId
QueryAddApplication(table, appId, pkgId) ==
    table \cup {[app |-> appId, pkg |-> pkgId]}
\* ERemoveApplication: deletes the row (appId, pkgId).
QueryRemoveApplication(table, appId, pkgId) ==
    table \ {[app |-> appId, pkg |-> pkgId]}

\* bool PrivilegeDb::PkgIdExists(pkgId): command->Step() found a row.
PkgIdExists(table, pkgId) == QueryPkgIdExists(table, pkgId) # {}

\* The exceptions of DB::SqlConnection (sql_connection.h): the kinds try_catch
\* names, and one more kind derived from Exception::Base.
EngineFaults == {"SqlConnection::SyntaxError", "SqlConnection::InternalError",
                 "SqlConnection::ConnectionBroken"}
\* What Step() raises when the statement violates a constraint of the schema.
ConstraintFault == "SqlConnection::InternalError"

\* try_catch with the handler of Exception::InternalError missing.
try_catch_SyntaxOnly(e) ==
    CASE e = "SqlConnection::SyntaxError" -> "InternalError"
      [] OTHER -> e

\* T try_catch(func), func ending with e ("none": it returned): the two kinds
\* caught are rethrown as PrivilegeDb::Exception::InternalError, anything else
\* leaves try_catch as it is.
try_catch(e) ==
    CASE e = "SqlConnection::SyntaxError" -> "InternalError"
      [] e = "SqlConnection::InternalError" -> "InternalError"
      [] OTHER -> e

\* AddApplication with the flag set from PkgIdExists after the insertion.
AddApplication_FlagAfterInsert(table, appId, pkgId) ==
    [flag |-> ~PkgIdExists(IF QueryAddApplicationConflicts(table, appId) THEN table
                           ELSE QueryAddApplication(table, appId, pkgId), pkgId),
     ok |-> ~QueryAddApplicationConflicts(table, appId),
     err |-> try_catch(IF QueryAddApplicationConflicts(table, appId)
                       THEN ConstraintFault ELSE "none"),
     table |-> IF QueryAddApplicationConflicts(table, appId) THEN table
               ELSE QueryAddApplication(table, appId, pkgId)]

\* void PrivilegeDb::AddApplication(appId, pkgId, pkgIdIsNew): the flag is set
\* from PkgIdExists before the insertion.
AddApplication(table, appId, pkgId) ==
    [flag |-> ~PkgIdExists(table, pkgId),
     ok |-> ~QueryAddApplicationConflicts(table, appId),
     err |-> try_catch(IF QueryAddApplicationConflicts(table, appId)
                       THEN ConstraintFault ELSE "none"),
     table |-> IF QueryAddApplicationConflicts(table, appId) THEN table
               ELSE QueryAddApplication(table, appId, pkgId)]

\* void PrivilegeDb::RemoveApplication(appId, pkgId, pkgIdIsNoMore): the flag
\* is set from PkgIdExists after the deletion.
RemoveApplication(table, appId, pkgId) ==
    [flag |-> ~PkgIdExists(QueryRemoveApplication(table, appId, pkgId), pkgId),
     ok |-> TRUE,
     err |-> try_catch("none"),
     table |-> QueryRemoveApplication(table, appId, pkgId)]

\* A call of one of the two, recorded in the log.
DbCall(op, appId, pkgId, r) ==
    /\ Len(dbLog) < MaxDbCalls
    /\ dbBefore' = appPkg
    /\ appPkg' = r.table
    /\ dbLog' = Append(dbLog, [op |-> op, app |-> appId, pkg |-> pkgId,
                               flag |-> r.flag, ok |-> r.ok, err |-> r.err])
    /\ UNCHANGED <<clientVars, adminVars, storeVars, descrVars>>

CallAddApplication ==
    \E appId \in Apps, pkgId \in Pkgs :
        DbCall("add", appId, pkgId, AddApplication(appPkg, appId, pkgId))

CallRemoveApplication ==
    \E appId \in Apps, pkgId \in Pkgs :
        DbCall("remove", appId, pkgId, RemoveApplication(appPkg, appId, pkgId))

InitDb == InitClient /\ InitAdminIdle /\ InitDbIdle

NextDb ==
    \/ CallAddApplication
    \/ CallRemoveApplication

SpecDb == InitDb /\ [][NextDb]_vars

LastDb == dbLog[Len(dbLog)]
DbCalls == [k \in 1..Len(dbLog) |-> <<dbLog[k].op, dbLog[k].app, dbLog[k].pkg>>]
DbFlags == [k \in 1..Len(dbLog) |-> dbLog[k].flag]

\* C4: a successful addApplication(appId, pkgId) reports isNewPackage = true
\* exactly when no application was associated with pkgId just before the
\* insertion, and a successful removeApplication(appId, pkgId) reports
\* isPackageNowEmpty = true exactly when none is associated with pkgId just
\* after the deletion; on an empty store add(app1, pkgA), add(app2, pkgA),
\* remove(app1, pkgA), remove(app2, pkgA) report true, false, false, true.
C4_PackageLifecycle ==
    /\ (dbLog # <<>> /\ LastDb.ok /\ LastDb.op = "add") =>
          (LastDb.flag <=> ~\E row \in dbBefore : row.pkg = LastDb.pkg)
    /\ (dbLog # <<>> /\ LastDb.ok /\ LastDb.op = "remove") =>
          (LastDb.flag <=> ~\E row \in appPkg : row.pkg = LastDb.pkg)
    /\ DbCalls = <<<<"add", "app1", "pkgA">>, <<"add", "app2", "pkgA">>,
                   <<"remove", "app1", "pkgA">>, <<"remove", "app2", "pkgA">>>>
          => DbFlags = <<TRUE, FALSE, FALSE, TRUE>>

\* The four calls of the example were made, all successful.
C4_Witness ==
    /\ DbCalls = <<<<"add", "app1", "pkgA">>, <<"add", "app2", "pkgA">>,
                   <<"remove", "app1", "pkgA">>, <<"remove", "app2", "pkgA">>>>
    /\ \A k \in 1..Len(dbLog) : dbLog[k].ok
    /\ appPkg = {}

(***************************************************************************)
(* class PrivilegeDb: the privilege table, transactions, engine faults.    *)
(***************************************************************************)

DbPrivileges == {"p1", "p2"}
\* The vectors passed as privileges: each a set of privileges in some order.
PrivVectors == {<<>>, <<"p1">>, <<"p2">>, <<"p1", "p2">>, <<"p2", "p1">>}

\* An engine call raising an exception: which call of the method (0 the
\* PrepareDataCommand, then its statements in order) and of what kind.
NoFault == [at |-> -1, kind |-> "none"]
FaultsAt(positions) == {NoFault} \cup [at : positions, kind : EngineFaults]

\* The statements behind Queries.at(...), which privilege_db.h holds: what
\* each does to the privilege table.
\* ERemoveAppPrivileges: deletes the rows of appId.
QueryRemoveAppPrivileges(grants, appId) == {row \in grants : row.app # appId}
\* EAddAppPrivileges: inserts (appId, privilege).
QueryAddAppPrivileges(grants, appId, privilege) ==
    grants \cup {[app |-> appId, priv |-> privilege]}
\* EGetPkgPrivileges: the privileges of the applications of pkgId.
QueryGetPkgPrivileges(apps, grants, pkgId) ==
    {row.priv : row \in {g \in grants :
                            [app |-> g.app, pkg |-> pkgId] \in apps}}
\* The rows of a result set in the order the engine returns them.
RECURSIVE RowsInOrder(_)
RowsInOrder(S) ==
    IF S = {} THEN <<>>
    ELSE LET first == CHOOSE x \in S : TRUE
         IN <<first>> \o RowsInOrder(S \ {first})
\* mSqlConnection->BeginTransaction(): the rows to restore are remembered.
EngineBegin(grants) == [open |-> TRUE, rows |-> grants]
\* mSqlConnection->RollbackTransaction(): the remembered rows are restored.
EngineRollback(grants, remembered) == remembered.rows
\* mSqlConnection->CommitTransaction(): the rows stay as they are.
EngineCommit(grants, remembered) == grants

\* RemoveAppPrivileges deleting the rows of every application.
RemoveAppPrivileges_EveryApp(grants, appId, fault) ==
    IF fault.at \in {0, 1}
    THEN [table |-> grants, err |-> try_catch(fault.kind)]
    ELSE [table |-> {}, err |-> try_catch("none")]

\* void PrivilegeDb::RemoveAppPrivileges(appId); the fault, if any, is raised
\* by PrepareDataCommand (0) or by Step (1), before any row is deleted.
RemoveAppPrivileges(grants, appId, fault) ==
    IF fault.at \in {0, 1}
    THEN [table |-> grants, err |-> try_catch(fault.kind)]
    ELSE [table |-> QueryRemoveAppPrivileges(grants, appId),
          err |-> try_catch("none")]

\* UpdateAppPrivileges, lines 198-202: the first n privileges are inserted.
RECURSIVE InsertFirst(_, _, _, _)
InsertFirst(grants, appId, privileges, n) ==
    IF n = 0 THEN grants
    ELSE QueryAddAppPrivileges(InsertFirst(grants, appId, privileges, n - 1),
                               appId, privileges[n])

\* UpdateAppPrivileges without the call of RemoveAppPrivileges.
UpdateAppPrivileges_KeepsOld(grants, appId, privileges, fault) ==
    IF fault.at \in 0..(Len(privileges) + 1)
    THEN [table |-> grants, err |-> try_catch(fault.kind)]
    ELSE [table |-> InsertFirst(grants, appId, privileges, Len(privileges)),
          err |-> try_catch("none")]

\* void PrivilegeDb::UpdateAppPrivileges(appId, privileges); the fault, if
\* any, is raised by PrepareDataCommand (0), inside RemoveAppPrivileges (1),
\* or by the Step of the k-th privilege (1 + k).
UpdateAppPrivileges(grants, appId, privileges, fault) ==
    IF fault.at = 0
    THEN [table |-> grants, err |-> try_catch(fault.kind)]
    ELSE IF fault.at = 1
    THEN [table |-> RemoveAppPrivileges(grants, appId, fault).table,
          err |-> try_catch(RemoveAppPrivileges(grants, appId, fault).err)]
    ELSE IF fault.at >= 2
    THEN [table |-> InsertFirst(RemoveAppPrivileges(grants, appId, NoFault).table,
                                appId, privileges, fault.at - 2),
          err |-> try_catch(fault.kind)]
    ELSE [table |-> InsertFirst(RemoveAppPrivileges(grants, appId, NoFault).table,
                                appId, privileges, Len(privileges)),
          err |-> try_catch("none")]

\* void PrivilegeDb::GetPkgPrivileges(pkgId, currentPrivileges): the rows are
\* appended to the caller's vector; the fault, if any, is raised by
\* PrepareDataCommand (0) or by the first Step (1).
GetPkgPrivileges(apps, grants, pkgId, currentPrivileges, fault) ==
    IF fault.at \in {0, 1}
    THEN [out |-> currentPrivileges, err |-> try_catch(fault.kind)]
    ELSE [out |-> currentPrivileges
                    \o RowsInOrder(QueryGetPkgPrivileges(apps, grants, pkgId)),
          err |-> try_catch("none")]

\* PrivilegeDb::PrivilegeDb(path): any exception of the connection's
\* constructor is rethrown as PrivilegeDb::Exception::IOError.
PrivilegeDb(e) == IF e = "none" THEN "none" ELSE "IOError"

\* void PrivilegeDb::BeginTransaction()
BeginTransaction(grants, remembered, fault) ==
    IF fault.at = 0
    THEN [table |-> grants, txn |-> remembered, err |-> try_catch(fault.kind)]
    ELSE [table |-> grants, txn |-> EngineBegin(grants), err |-> try_catch("none")]

\* void PrivilegeDb::CommitTransaction()
CommitTransaction(grants, remembered, fault) ==
    IF fault.at = 0
    THEN [table |-> grants, txn |-> remembered, err |-> try_catch(fault.kind)]
    ELSE [table |-> EngineCommit(grants, remembered), txn |-> NoTxn,
          err |-> try_catch("none")]

\* RollbackTransaction committing what was done instead.
RollbackTransaction_Commits(grants, remembered, fault) ==
    CommitTransaction(grants, remembered, fault)

\* void PrivilegeDb::RollbackTransaction()
RollbackTransaction(grants, remembered, fault) ==
    IF fault.at = 0
    THEN [table |-> grants, txn |-> remembered, err |-> try_catch(fault.kind)]
    ELSE [table |-> EngineRollback(grants, remembered), txn |-> NoTxn,
          err |-> try_catch("none")]

\* A call on the open store, recorded with its outcome.
StoreCall(op, arg, privileges, fault, table, err, out) ==
    /\ conn = "open"
    /\ appPriv' = table
    /\ sPre' = appPriv
    /\ sLast' = [op |-> op, arg |-> arg, privs |-> privileges, fault |-> fault,
                 err |-> err, out |-> out]
    /\ UNCHANGED <<conn, clientVars, adminVars, dbVars, descrVars>>

CallPrivilegeDb ==
    /\ conn = "closed"
    /\ \E fault \in FaultsAt({0}) :
          /\ conn' = IF PrivilegeDb(fault.kind) = "none" THEN "open" ELSE "closed"
          /\ sLast' = [op |-> "PrivilegeDb", arg |-> "-", privs |-> <<>>,
                       fault |-> fault, err |-> PrivilegeDb(fault.kind),
                       out |-> <<>>]
    /\ UNCHANGED <<appPriv, sPre, clientVars, adminVars, dbVars, descrVars>>

CallRemoveAppPrivileges ==
    \E appId \in Apps, fault \in FaultsAt({0, 1}) :
        LET r == RemoveAppPrivileges(appPriv, appId, fault)
        IN StoreCall("RemoveAppPrivileges", appId, <<>>, fault, r.table,
                     r.err, <<>>)

CallUpdateAppPrivileges ==
    \E appId \in Apps, privileges \in PrivVectors :
        \E fault \in FaultsAt(0..(Len(privileges) + 1)) :
            LET r == UpdateAppPrivileges(appPriv, appId, privileges, fault)
            IN StoreCall("UpdateAppPrivileges", appId, privileges, fault,
                         r.table, r.err, <<>>)

\* The composite operation of the call site: the update between
\* BeginTransaction and CommitTransaction, rolled back when it throws.
UpdateInTransaction(grants, appId, privileges, fault) ==
    LET begun == BeginTransaction(grants, NoTxn, NoFault)
        updated == UpdateAppPrivileges(begun.table, appId, privileges, fault)
        ended == IF updated.err # "none"
                 THEN RollbackTransaction(updated.table, begun.txn, NoFault)
                 ELSE CommitTransaction(updated.table, begun.txn, NoFault)
    IN [table |-> ended.table, err |-> updated.err]

CallUpdateInTransaction ==
    \E appId \in Apps, privileges \in PrivVectors :
        \E fault \in FaultsAt(0..(Len(privileges) + 1)) :
            LET r == UpdateInTransaction(appPriv, appId, privileges, fault)
            IN StoreCall("UpdateInTransaction", appId, privileges, fault,
                         r.table, r.err, <<>>)

\* The caller passes an empty vector.
CallGetPkgPrivileges ==
    \E pkgId \in Pkgs, fault \in FaultsAt({0, 1}) :
        LET r == GetPkgPrivileges(appPkg, appPriv, pkgId, <<>>, fault)
        IN StoreCall("GetPkgPrivileges", pkgId, <<>>, fault, appPriv,
                     r.err, r.out)

\* The application tables the privilege calls are made on.
StoreTables ==
    {{[app |-> "app1", pkg |-> "pkgA"], [app |-> "app2", pkg |-> "pkgA"]},
     {[app |-> "app1", pkg |-> "pkgA"], [app |-> "app2", pkg |-> "pkgB"]}}

InitStore ==
    /\ InitClient
    /\ InitAdminIdle
    /\ appPkg \in StoreTables
    /\ dbBefore = {}
    /\ dbLog = <<>>
    /\ InitStoreIdle

NextStore ==
    \/ CallPrivilegeDb
    \/ CallRemoveAppPrivileges
    \/ CallUpdateAppPrivileges
    \/ CallUpdateInTransaction
    \/ CallGetPkgPrivileges

SpecStore == InitStore /\ [][NextStore]_vars

GrantsOf(grants, appId) == {row.priv : row \in {g \in grants : g.app = appId}}
ElementsOf(vector) == {vector[k] : k \in 1..Len(vector)}

\* C11 as stated: after an updateApplicationPrivileges(appId, privileges) that
\* failed part-way (the removal succeeded and an insert raised an error), the
\* grant set of appId is the complete set held before the call or the
\* complete new set.
C11_UpdateAloneIsAtomic ==
    (sLast.op = "UpdateAppPrivileges" /\ sLast.fault.at >= 2)
        => GrantsOf(appPriv, sLast.arg)
              \in {GrantsOf(sPre, sLast.arg), ElementsOf(sLast.privs)}

\* C11, amended: an updateApplicationPrivileges(appId, privileges) made inside
\* a transaction that the call site rolls back when the update fails leaves,
\* on failure, every grant as it was before the call, and on success the
\* complete new set for appId with the grants of the other applications
\* untouched.
C11_UpdateInTransactionIsAtomic ==
    sLast.op = "UpdateInTransaction"
        => IF sLast.err # "none"
           THEN appPriv = sPre
           ELSE /\ GrantsOf(appPriv, sLast.arg) = ElementsOf(sLast.privs)
                /\ \A other \in Apps \ {sLast.arg} :
                      GrantsOf(appPriv, other) = GrantsOf(sPre, other)

\* An update in a transaction failed after the removal and one insert, and
\* the grants held before, different from the new ones, are back.
C11_Witness ==
    /\ sLast.op = "UpdateInTransaction"
    /\ sLast.fault.at >= 3
    /\ sLast.err # "none"
    /\ GrantsOf(sPre, sLast.arg) # {}
    /\ GrantsOf(sPre, sLast.arg) # ElementsOf(sLast.privs)
    /\ appPriv = sPre

\* appId is the only application of pkgId.
OnlyAppOf(appId, pkgId) ==
    {row \in appPkg : row.pkg = pkgId} = {[app |-> appId, pkg |-> pkgId]}

\* C12: a successful updateApplicationPrivileges(appId, privileges) followed
\* by a successful getPackagePrivileges(pkgId), appId being the only
\* application of pkgId, yields the elements of privileges and nothing else,
\* whatever appId was granted before the update.
C12_RoundTrip ==
    [][(/\ sLast.op \in {"UpdateAppPrivileges", "UpdateInTransaction"}
        /\ sLast.err = "none"
        /\ sLast'.op = "GetPkgPrivileges"
        /\ sLast'.err = "none"
        /\ OnlyAppOf(sLast.arg, sLast'.arg))
       => ElementsOf(sLast'.out) = ElementsOf(sLast.privs)]_vars

\* getPackagePrivileges returned the two privileges of the only application
\* of its package, another application holding a grant of its own.
C12_Witness ==
    /\ sLast.op = "GetPkgPrivileges"
    /\ sLast.err = "none"
    /\ \E appId \in Apps :
          /\ OnlyAppOf(appId, sLast.arg)
          /\ GrantsOf(appPriv, appId) = DbPrivileges
          /\ ElementsOf(sLast.out) = DbPrivileges
          /\ \E other \in Apps \ {appId} :
                GrantsOf(appPriv, other) \notin {{}, DbPrivileges}

\* C13: a removeApplicationPrivileges(appId) during which the engine raises
\* nothing returns normally, also when appId has no grants; it leaves appId
\* without grants, the grants of the other applications and the
\* application/package associations as they were; made right after a
\* successful call for the same appId, it leaves the store as that call left it.
C13_RemoveIdempotent ==
    [][(sLast'.op = "RemoveAppPrivileges" /\ sLast'.fault = NoFault)
       => /\ sLast'.err = "none"
          /\ GrantsOf(appPriv', sLast'.arg) = {}
          /\ \A other \in Apps \ {sLast'.arg} :
                GrantsOf(appPriv', other) = GrantsOf(appPriv, other)
          /\ appPkg' = appPkg
          /\ (/\ sLast.op = "RemoveAppPrivileges"
              /\ sLast.arg = sLast'.arg
              /\ sLast.err = "none") => appPriv' = appPriv]_vars

\* A removal for an application without grants returned normally, another
\* application keeping its grants.
C13_Witness ==
    /\ sLast.op = "RemoveAppPrivileges"
    /\ sLast.err = "none"
    /\ GrantsOf(sPre, sLast.arg) = {}
    /\ appPriv = sPre
    /\ \E other \in Apps \ {sLast.arg} : GrantsOf(appPriv, other) # {}

\* C15: a call during which the engine raised a fault ends with InternalError
\* or IOError: no engine exception reaches the caller and no fault ends in a
\* normal return.
C15_FaultsTranslated ==
    sLast.fault # NoFault => sLast.err \in {"InternalError", "IOError"}

\* C16: SetPolicies with an empty vector makes no call on the store and
\* returns normally; with a non-empty vector it makes exactly one call, which
\* carries the whole vector.  UpdateAppPolicy therefore makes one call when
\* oldPrivileges and newPrivileges differ and none when they are equal.
C16_OneBulkCall ==
    (aOut \notin {"-", "pending"} /\ aPolicies # <<>>)
        => /\ IF Batch = <<>>
              THEN adminCalls = <<>> /\ aOut = "ok"
              ELSE adminCalls = <<Batch>>
           /\ aIn.op = "UpdateAppPolicy"
                 => IF aIn.old = aIn.new
                    THEN adminCalls = <<>>
                    ELSE Len(adminCalls) = 1

\* An UpdateAppPolicy that revokes and grants made one call with both rules.
C16_Witness ==
    /\ aIn.op = "UpdateAppPolicy"
    /\ aOut = "ok"
    /\ Len(Batch) >= 2
    /\ \E k \in 1..Len(Batch) : Batch[k].result = "Delete"
    /\ \E k \in 1..Len(Batch) : Batch[k].result = "Allow"
    /\ adminCalls = <<Batch>>

\* The rules of a store with the given user token, and those in one bucket.
RulesOfUser(store, user) == {rule \in store : rule.user = user}
RulesIn(store, bucket) == {rule \in store : rule.bucket = bucket}

\* The one call UserRemove(uid) makes: a recursive erase from PRIVACY_MANAGER
\* with the user filter uid, any client, any privilege.
UserRemoveErase(uid) ==
    <<[bucket |-> Buckets("PRIVACY_MANAGER"), recursive |-> TRUE,
       client |-> CYNARA_ADMIN_ANY, user |-> ToString(uid),
       privilege |-> CYNARA_ADMIN_ANY]>>

\* C17 as stated: userRemove(uid) issues one recursive erase from
\* PRIVACY_MANAGER filtered to user uid, any client, any privilege; after it
\* the rules of uid in MANIFESTS and all rules of other users are unchanged.
C17_ManifestsGrantsKept ==
    (aIn.op = "UserRemove" /\ aOut = "ok")
        => /\ aErase = UserRemoveErase(aIn.uid)
           /\ RulesIn(RulesOfUser(aStore, ToString(aIn.uid)), Buckets("MANIFESTS"))
                 = RulesIn(RulesOfUser(aIn.store, ToString(aIn.uid)),
                           Buckets("MANIFESTS"))
           /\ \A rule \in aIn.store :
                 rule.user # ToString(aIn.uid) => rule \in aStore

\* C17, amended: userRemove(uid) issues that one erase, and after it the
\* store holds no rule of uid in PRIVACY_MANAGER or in any bucket reachable
\* from it, MANIFESTS included, and holds every rule of every other user and
\* no rule it did not hold before.
C17_UserRulesErased ==
    (aIn.op = "UserRemove" /\ aOut # "pending")
        => /\ aErase = UserRemoveErase(aIn.uid)
           /\ aPolicies = <<>> /\ adminCalls = <<>>
           /\ aOut = "ok" =>
                 /\ RulesOfUser(aStore, ToString(aIn.uid)) = {}
                 /\ aStore = aIn.store \ RulesOfUser(aIn.store, ToString(aIn.uid))
           /\ aOut # "ok" => aStore = aIn.store

\* A user with an override, a redirect and a grant in MANIFESTS was removed,
\* the other user keeping those three rules.
C17_Witness ==
    /\ aIn.op = "UserRemove" /\ aOut = "ok"
    /\ aIn.uid = 5001
    /\ aIn.store = BucketLinks \cup UserRules
    /\ Cardinality(RulesOfUser(aStore, "0")) = 3
    /\ RulesOfUser(aStore, "5001") = {}

\* A token that is the decimal numeral of an unsigned integer.
IsUnsigned(token) ==
    /\ CharsOf(token) # <<>>
    /\ \A k \in 1..Len(CharsOf(token)) : IsDigit(CharsOf(token)[k])
    /\ Len(Significant(CharsOf(token))) < ULongDigits

\* The user tokens of the wildcard-client rules of MAIN, the wildcard aside.
ListedTokens(store) ==
    {rule.user : rule \in {x \in store : /\ x.bucket = Buckets("MAIN")
                                         /\ x.client = CYNARA_ADMIN_WILDCARD
                                         /\ x.privilege = CYNARA_ADMIN_WILDCARD
                                         /\ x.user # CYNARA_ADMIN_WILDCARD}}

\* C18: listUsers fails only when the store's listing fails; otherwise it
\* returns the values of the listed user tokens that are unsigned integers,
\* and skips every other token.
C18_UnparseableSkipped ==
    (aIn.op = "ListUsers" /\ aOut # "pending")
        => /\ aOut \in {"ok", Outcome(CYNARA_API_OPERATION_FAILED)}
           /\ aOut = "ok" =>
                 {aUsers[k] : k \in 1..Len(aUsers)}
                    = {DecimalValue(Significant(CharsOf(t)))
                       : t \in {x \in ListedTokens(aIn.store) : IsUnsigned(x)}}

\* The map the last lookup read, and whether it holds the looked-up key.
LookedUpMap ==
    IF dLast.op = "convertToPolicyDescription" THEN TypeToDescription
    ELSE DescriptionToType
LookedUpKeys == {k \in DOMAIN LookedUpMap : k = dLast.key}

\* The two maps hold the entries of the list and nothing else.
CacheHolds(list) ==
    /\ m_policyDescriptionsInitialized
    /\ DOMAIN TypeToDescription = {list[k].result : k \in 1..Len(list)}
    /\ DOMAIN DescriptionToType = {list[k].name : k \in 1..Len(list)}
    /\ \A k \in 1..Len(list) :
          /\ TypeToDescription[list[k].result] = list[k].name
          /\ DescriptionToType[list[k].name] = list[k].result

\* C19: a lookup made before any successful non-empty load asks the store;
\* after such a load a lookup with forceRefresh = false makes no store call
\* and leaves the cache as it was, and a lookup with forceRefresh = true makes
\* exactly one store call; the descriptions a store call returns replace the
\* cache; and a lookup returns the cached value of its key, or fails when the
\* cache does not hold the key.
C19_DescriptionCache ==
    dLast.op # "-"
        => /\ ~dPre.initialized => dLast.calls = 1
           /\ (dPre.initialized /\ ~dLast.forceRefresh)
                 => /\ dLast.calls = 0
                    /\ dPre = CacheOf(m_policyDescriptionsInitialized,
                                      TypeToDescription, DescriptionToType)
           /\ dLast.forceRefresh => dLast.calls = 1
           /\ (dLast.calls = 1 /\ dLast.reply.list # <<>>)
                 => CacheHolds(dLast.reply.list)
           /\ dLast.err \in {"ok", "std::out_of_range"}
                 => IF LookedUpKeys = {}
                    THEN dLast.err = "std::out_of_range"
                    ELSE /\ dLast.err = "ok"
                         /\ \A k \in LookedUpKeys :
                               dLast.out = LookedUpMap[k]

\* After a load, a lookup with forceRefresh = true replaced the cache by a
\* different list and returned the new value of its key.
C19_Witness ==
    /\ dLast.op = "convertToPolicyDescription"
    /\ dPre.initialized
    /\ dLast.forceRefresh
    /\ dLast.calls = 1
    /\ dLast.key = 10
    /\ 10 \notin DOMAIN dPre.typeToDescription
    /\ dLast.err = "ok"
    /\ dLast.out = "Ask user"

\* The threads that are inside the critical section of check(), of run() or
\* of the destructor, where the calls on the store connection are made.
InCriticalSection ==
    {ByCaller(c) : c \in {x \in Callers : cpc[x] \in {"create", "notify", "unlock"}}}
    \cup (IF wpc = "process" THEN {ByWorker} ELSE {})
    \cup (IF dpc = "finish" THEN {ByDtor} ELSE {})

\* C20: at most one thread is inside a call on the store connection, and the
\* thread that is holds the mutex: a caller from its cache lookup to the end
\* of its request registration, the worker in its processing step, the
\* destructor in the final teardown; a cache lookup starts only when no
\* thread holds the mutex.
C20_MutualExclusion ==
    /\ [](/\ Cardinality(InCriticalSection) <= 1
          /\ \A t \in InCriticalSection : mutex = t
          /\ mutex # Free => InCriticalSection = {mutex})
    /\ [][nChecks' # nChecks => mutex = Free]_vars

\* A caller is registering its request under the mutex while the worker,
\* with events of the store's descriptor to process, waits for it.
C20_Witness ==
    /\ \E c \in Callers : cpc[c] = "create" /\ mutex = ByCaller(c)
    /\ wpc = "chk1"
    /\ revents.r1 # {}

\* C21: a caller blocked on its promise does not hold the mutex: a caller
\* holds it only from its cache lookup to the end of its critical section,
\* after the registration and the wake signal, so the mutex is never held by
\* a thread that is waiting for a result.
C21_BlockedCallerHoldsNoMutex ==
    \A c \in Callers :
        /\ cpc[c] \in {"wait", "done", "idle"} => mutex # ByCaller(c)
        /\ mutex = ByCaller(c) => cpc[c] \in {"create", "notify", "unlock"}
        /\ cpc[c] = "wait" => nPuts[c] = 1

\* One caller is blocked on its promise while the worker holds the mutex for
\* event processing and the other caller has still to make its check.
C21_Witness ==
    /\ cpc[1] = "wait" /\ promise[1].n = 0
    /\ mutex = ByWorker /\ wpc = "process"
    /\ cpc[2] = "idle"

\* The calls on the store connection that are under way, each with the thread
\* that makes it: a caller between its cache lookup and its request creation,
\* the worker in its processing step, the destructor in the teardown.
ConnectionCalls ==
    {[thread |-> ByCaller(c), api |-> "cynara_async_create_request"] :
        c \in {x \in Callers : cpc[x] = "create"}}
    \cup (IF wpc = "process"
          THEN {[thread |-> ByWorker, api |-> "cynara_async_process"]} ELSE {})
    \cup (IF dpc = "finish"
          THEN {[thread |-> ByDtor, api |-> "cynara_async_finish"]} ELSE {})

\* C22 as stated: the worker is the only thread that calls into the store
\* connection; no caller of check() makes a cache lookup or a request
\* creation itself.
C22_OnlyWorkerCallsConnection ==
    /\ \A k \in ConnectionCalls : k.thread = ByWorker
    /\ \A c \in Callers : result[c].via # "cache" /\ check_id[c] = 0

\* C22: the worker is the only thread that runs the event-processing step; a
\* caller of check() makes its cache lookup and its request creation itself,
\* holding the mutex, and then only waits: its promise is set in a processing
\* step of the worker or in the teardown by the destructor, never by a step of
\* a caller.
C22_CallersCallUnderMutex ==
    /\ [](\A k \in ConnectionCalls : mutex = k.thread)
    /\ [][\A c \in Callers :
            /\ promise'[c].n > promise[c].n =>
                  \/ wpc = "process" /\ wpc' = "enter" /\ mutex = ByWorker
                  \/ dpc = "finish" /\ dpc' = "destroyed" /\ mutex = ByDtor
            /\ check_id'[c] \notin {0, check_id[c]} =>
                  mutex = ByCaller(c) /\ cpc[c] = "create"]_vars

\* A caller has created its request itself and waits, and the worker is in
\* the processing step that will set a promise.
C22_Witness ==
    /\ cpc[1] = "wait" /\ check_id[1] # 0 /\ promise[1].n = 0
    /\ wpc = "process" /\ mutex = ByWorker
    /\ reqs[check_id[1]].st = "ready"

\* C23: the connection is torn down once, by the destructor holding the
\* mutex, and only after the worker has left its loop and been joined; from
\* the moment the teardown starts the worker takes no step, so it never runs
\* its processing step on a connection that is being or has been torn down.
C23_TeardownOrdering ==
    /\ [](/\ dpc \in {"lock", "finish", "destroyed"} => wpc = "exited"
          /\ dpc = "finish" => mutex = ByDtor
          /\ dpc = "destroyed" => libFd = "none" /\ mutex = Free)
    /\ [][/\ dpc = "destroyed" => dpc' = "destroyed"
          /\ dpc' = "destroyed" /\ dpc # "destroyed" =>
                dpc = "finish" /\ mutex = ByDtor /\ wpc = "exited"
          /\ dpc \in {"lock", "finish", "destroyed"} =>
                wpc' = wpc /\ revents' = revents /\ polled' = polled]_vars

\* The teardown has been made with the worker gone, and it ended a request
\* that was still pending.
C23_Witness ==
    /\ dpc = "destroyed" /\ wpc = "exited" /\ libFd = "none"
    /\ lastCall[1].cause = "FINISH" /\ promise[1].n = 1

Withdrawn == libFd = "none" /\ pollFds1.fd = "sock"

\* C25: while the descriptor is withdrawn the worker is woken by the wake
\* signal only: a poll made in that period reports nothing for the store's
\* old descriptor, and the worker does not run the processing step.
C25_WithdrawnNotPolled ==
    (Withdrawn /\ dpc # "destroyed") =>
        /\ wpc # "process"
        /\ wpc \in {"get", "term", "chk1"} => revents.r1 = {}
        /\ pollFds1.events = {}

\* C27: pollFds[1] is written by a status callback only on the worker's own
\* thread (inside its processing step) or while the worker is neither inside
\* poll() on the entry nor about to read the entry's revents.
C27_NoWriteWhilePolled ==
    [][pollFds1' # pollFds1 =>
          \/ wpc = "process" /\ mutex = ByWorker
          \/ wpc \notin {"poll", "chk1"}]_vars

\* The store after a successful UpdateAppPolicy(label, user, old, new) on
\* store.
Applied(store, label, user, old, new) ==
    cynara_admin_set_policies(store, MergeJoin(label, user, old, new, 1, 1, <<>>))

\* C26: on a store whose MANIFESTS grants for (label, user) are those of old,
\* a successful UpdateAppPolicy(label, user, old, new) leaves exactly the
\* grants of new for (label, user), one rule for each, and every other rule
\* as it was; and updating from old to new and then from new to any third
\* sequence gives the store of the direct update from old to the third.
C26_DiffRealisesNewState ==
    (aIn.op = "UpdateAppPolicy" /\ aOut # "pending") =>
        /\ aOut = "ok" =>
              /\ aStore = BucketLinks \cup Grants(aIn.label, aIn.user, aIn.new)
                                      \cup OtherGrants(aIn.label, aIn.user)
              /\ \A third \in SortedPrivSeqs :
                    Applied(aStore, aIn.label, aIn.user, aIn.new, third)
                        = Applied(StoreBefore(aIn), aIn.label, aIn.user,
                                  aIn.old, third)
        /\ \A p \in Privileges :
              Cardinality({rule \in aStore :
                              /\ rule.bucket = Buckets("MANIFESTS")
                              /\ rule.client = aIn.label /\ rule.user = aIn.user
                              /\ rule.privilege = p}) <= 1

\* An update from {a, b} to {b, c} has succeeded: the store grants b and c,
\* no longer a, and still holds the grants of the other application and user.
C26_Witness ==
    /\ aIn.op = "UpdateAppPolicy" /\ aOut = "ok"
    /\ aIn.old = <<"a", "b">> /\ aIn.new = <<"b", "c">>
    /\ PolicyOp(aIn.label, aIn.user, "c", "Allow", Buckets("MANIFESTS")) \in aStore
    /\ PolicyOp(aIn.label, aIn.user, "a", "Allow", Buckets("MANIFESTS")) \notin aStore
    /\ OtherGrants(aIn.label, aIn.user) \subseteq aStore
    /\ OtherGrants(aIn.label, aIn.user) # {}

\* C29: a fetch that the store fails, or answers with an empty list, leaves
\* the flag and the two maps as they were before the call; the flag is true
\* exactly when a non-empty list has been loaded, and then the two maps hold
\* the entries of the last list loaded and nothing else; while it is false
\* the maps are empty.
C29_FailedFetchKeepsCache ==
    /\ (dLast.calls = 1 /\ (checkCynaraError(dLast.reply.code).kind = "throw"
                            \/ dLast.reply.list = <<>>))
          => dPre = CacheOf(m_policyDescriptionsInitialized, TypeToDescription,
                            DescriptionToType)
    /\ (dLast.calls = 1 /\ checkCynaraError(dLast.reply.code).kind = "throw")
          => dLast.err = Outcome(dLast.reply.code)
    /\ m_policyDescriptionsInitialized <=> dLoaded # <<>>
    /\ m_policyDescriptionsInitialized => CacheHolds(dLoaded)
    /\ ~m_policyDescriptionsInitialized =>
          TypeToDescription = <<>> /\ DescriptionToType = <<>>

\* With three descriptions loaded, a forced fetch that the store failed has
\* left the flag set and the three entries in both maps.
C29_Witness ==
    /\ dLast.forceRefresh /\ dLast.calls = 1
    /\ dLast.reply.code = CYNARA_API_OPERATION_FAILED
    /\ dLast.err = "OperationFailed"
    /\ dPre.initialized /\ m_policyDescriptionsInitialized
    /\ Len(dLoaded) = 3
    /\ DOMAIN TypeToDescription = {0, 10, 65535}

\* C24: the wake-up of a registered check is not lost: whenever the worker
\* is inside poll() on an entry older than the one the status callback set
\* last, the wake signal is pending or about to be written, so the worker
\* polls again with the current entry; when poll reports the store's
\* descriptor ready the worker goes on to the processing step; and, the
\* service answering and no shutdown being requested, every check() that
\* waits on its promise eventually returns.
C24_CacheMissProgress ==
    /\ [](\A c \in Callers :
            /\ (wpc = "poll" /\ polled # pollFds1) =>
                  (eventfd > 0 \/ \E d \in Callers : cpc[d] = "notify")
            /\ (cpc[c] \in {"unlock", "wait"} /\ promise[c].n = 0
                /\ reqs[check_id[c]].st = "queued" /\ wpc = "poll"
                /\ eventfd = 0) => polled = [fd |-> "sock",
                                             events |-> {"POLLIN", "POLLOUT"}])
    /\ (wpc = "chk1" /\ revents.r1 # {}) ~> (wpc = "process")
    /\ \A c \in Callers :
          (cpc[c] = "wait") ~> (cpc[c] = "done" \/ terminate)

\* A caller waits on its promise, its request registered but not yet sent,
\* while the worker, woken by the wake signal, has drained it and is about to
\* poll again with the entry the status callback set.
C24_Witness ==
    /\ cpc[1] = "wait" /\ promise[1].n = 0 /\ nPuts[1] = 1
    /\ reqs[check_id[1]].st = "queued"
    /\ wpc = "enter" /\ eventfd = 0 /\ ~terminate
    /\ pollFds1 = [fd |-> "sock", events |-> {"POLLIN", "POLLOUT"}]
    /\ polled # pollFds1

====
